---- MODULE Spec2Model ----
(***************************************************************************)
(* Cabling reconciliation and per-port classification of lldpq:            *)
(*   cable-check/generate_topology.py       (minimal reconciler)           *)
(*   cable-check/generate_topology_full.py  (full reconciler)              *)
(*   cable-check/lldp-validate.py           (per-port report)              *)
(*   cable-check/lldp_analyzer.py           (per-port classifier)          *)
(*                                                                         *)
(* A Python str is a sequence of atoms; an atom is a run of characters     *)
(* that no operation of the code splits ("swp1", "-", the quote, "--").    *)
(* A failed regex search (None) is the empty sequence: every capture group *)
(* of the code needs at least one character.                               *)
(***************************************************************************)
EXTENDS Integers, Sequences, FiniteSets, TLC

VARIABLES
    assetsFile,             \* assets.ini: [exists, lines], a line is its split() parts
    hostsFile,              \* hosts.ini: [exists, lines]
    dotFile,                \* topology.dot: [exists, lines]
    dumpFiles,              \* lldp-results/<device>_lldp_result.ini: device -> chunks
    dumpDirExists,          \* is lldp-results a directory
    mainHtml,               \* /var/www/html/topology/main.html: [exists, created_on, written]
    exitStatus,             \* the topology script's end: [exited, status]
    normalizer,             \* a call of normalize_interface_name: arguments and result
    categorizer,            \* a categorization of one device name: arguments and result
    topologyType,           \* topology_config.yaml: "minimal" or "full"
    topologyJs,             \* topology.js: [written, nodes, links]
    locals,                 \* locals of the last generate_topology_file call
    results,                \* lldp-validate: what check_connections returned
    topology_expectations,  \* LLDPAnalyzer.topology_expectations
    current_lldp_stats,     \* LLDPAnalyzer.current_lldp_stats
    validateRun,            \* __main__ of lldp-validate.py: [pc, files_in_order, report]
    bothScripts             \* the two topology scripts run on one snapshot: their graphs

vars == <<assetsFile, hostsFile, dotFile, dumpFiles, dumpDirExists, mainHtml, exitStatus,
          normalizer, categorizer, topologyType, topologyJs, locals, results,
          topology_expectations, current_lldp_stats, validateRun, bothScripts>>

-----------------------------------------------------------------------------
(* Bounds of the model *)

\* sections in all the dump files of one snapshot together
MaxSections == 2
\* link lines of topology.dot
MaxLines == 2

-----------------------------------------------------------------------------
(* Strings *)

Q == "\""
None == <<>>

Range(s) == {s[i] : i \in 1..Len(s)}

StartsWith(s, p) == Len(p) <= Len(s) /\ SubSeq(s, 1, Len(p)) = p

Drop(s, n) == SubSeq(s, n + 1, Len(s))

\* Code point order of the atoms device names are made of
AtomRank(a) ==
    CASE a = "-" -> 0
      [] a = "A" -> 1
      [] a = "B" -> 2
      [] a = "H" -> 3
      [] a = "OOB-MGMT" -> 4
      [] a = "leaf" -> 5
      [] OTHER -> 6

RECURSIVE StrLess(_, _)
StrLess(a, b) ==
    IF a = <<>> THEN b # <<>>
    ELSE IF b = <<>> THEN FALSE
    ELSE IF Head(a) = Head(b) THEN StrLess(Tail(a), Tail(b))
    ELSE AtomRank(Head(a)) < AtomRank(Head(b))

\* str.strip(): leading and trailing blanks removed
RECURSIVE LStrip(_)
LStrip(s) == IF s # <<>> /\ Head(s) = " " THEN LStrip(Tail(s)) ELSE s

RECURSIVE RStrip(_)
RStrip(s) ==
    IF s # <<>> /\ s[Len(s)] = " " THEN RStrip(SubSeq(s, 1, Len(s) - 1)) ELSE s

Strip(s) == RStrip(LStrip(s))

\* index of the first occurrence of atom a in s at or after position i, 0 if none
RECURSIVE IndexFrom(_, _, _)
IndexFrom(s, a, i) ==
    IF i > Len(s) THEN 0
    ELSE IF s[i] = a THEN i
    ELSE IndexFrom(s, a, i + 1)

\* str.split(sep) for a one-atom separator
RECURSIVE SplitOn(_, _)
SplitOn(s, sep) ==
    LET i == IndexFrom(s, sep, 1)
    IN  IF i = 0 THEN <<s>>
        ELSE <<SubSeq(s, 1, i - 1)>> \o SplitOn(Drop(s, i), sep)

\* str.replace(a, '')
RECURSIVE RemoveAtom(_, _)
RemoveAtom(s, a) ==
    IF s = <<>> THEN <<>>
    ELSE IF Head(s) = a THEN RemoveAtom(Tail(s), a)
    ELSE <<Head(s)>> \o RemoveAtom(Tail(s), a)

\* re.findall(r'"(.*?)"', line): the text between successive pairs of quotes
RECURSIVE FindAllQuoted(_)
FindAllQuoted(line) ==
    LET i == IndexFrom(line, Q, 1)
        j == IF i = 0 THEN 0 ELSE IndexFrom(line, Q, i + 1)
    IN  IF i = 0 \/ j = 0 THEN <<>>
        ELSE <<SubSeq(line, i + 1, j - 1)>> \o FindAllQuoted(Drop(line, j))

\* re.sub(r'\[.*?\]', '', line): every "[" up to the next "]" removed
RECURSIVE RemoveBracketed(_)
RemoveBracketed(line) ==
    LET i == IndexFrom(line, "[", 1)
        j == IF i = 0 THEN 0 ELSE IndexFrom(line, "]", i + 1)
    IN  IF i = 0 \/ j = 0 THEN line
        ELSE SubSeq(line, 1, i - 1) \o RemoveBracketed(Drop(line, j))

\* The permutations of a finite set, as sequences: the orders in which a
\* Python set or a directory can be iterated
Perms(S) ==
    {p \in [1..Cardinality(S) -> S] : \A i, j \in 1..Cardinality(S) : p[i] = p[j] => i = j}

-----------------------------------------------------------------------------
(* Ordered dict: keys in insertion order *)

EmptyDict == [keys |-> <<>>, val |-> <<>>]

InDict(k, d) == k \in Range(d.keys)

DictPut(d, k, v) ==
    [keys |-> IF InDict(k, d) THEN d.keys ELSE Append(d.keys, k),
     val  |-> (k :> v) @@ d.val]

-----------------------------------------------------------------------------
(* Inventory loader: generate_topology.py *)

parse_assets_line(device_info, line) ==
    IF Len(line) >= 6
    THEN DictPut(device_info, line[1],
                 [primaryIP |-> line[2], mac |-> line[3], serial_number |-> line[4],
                  model |-> line[5], version |-> line[6]])
    ELSE device_info

RECURSIVE parse_assets_lines(_, _)
parse_assets_lines(device_info, lines) ==
    IF lines = <<>> THEN device_info
    ELSE parse_assets_lines(parse_assets_line(device_info, Head(lines)), Tail(lines))

\* lines[1:]: the header line is skipped; a missing file is an empty table
parse_assets_file(file) ==
    IF ~file.exists \/ file.lines = <<>> THEN EmptyDict
    ELSE parse_assets_lines(EmptyDict, Tail(file.lines))

parse_hosts_file(file) ==
    IF ~file.exists THEN {}
    ELSE {Strip(file.lines[i]) : i \in
            {k \in 1..Len(file.lines) :
                LET line == Strip(file.lines[k])
                IN  line # <<>> /\ Head(line) # "[" /\ Head(line) # "#"}}

NAInfo ==
    [primaryIP |-> <<"N/A">>, mac |-> <<"N/A">>, serial_number |-> <<"N/A">>,
     model |-> <<"N/A">>, version |-> <<"N/A">>]

\* generate_topology_file: the hosts missing from the asset table join
\* device_info in the order the host set is iterated
RECURSIVE add_hosts(_, _)
add_hosts(device_info, host_order) ==
    IF host_order = <<>> THEN device_info
    ELSE add_hosts(IF InDict(Head(host_order), device_info) THEN device_info
                   ELSE DictPut(device_info, Head(host_order), NAInfo),
                   Tail(host_order))

-----------------------------------------------------------------------------
(* Expected-topology loader of the reconciler *)

\* one line of parse_topology_dot_file: the links it adds to defined_links
dot_line_links(raw) ==
    LET line == Strip(raw)
        parts == FindAllQuoted(line)
    IN  IF line # <<>> /\ Head(line) = Q /\ "--" \in Range(line) /\ Len(parts) = 4
        THEN {<<parts[1], parts[2], parts[3], parts[4]>>}
        ELSE {}

parse_topology_dot_file(file) ==
    IF ~file.exists THEN {}
    ELSE UNION {dot_line_links(file.lines[i]) : i \in 1..Len(file.lines)}

-----------------------------------------------------------------------------
(* Interface Name Normalizer *)

\* The loop of normalize_interface_name over the known names in the order
\* `order`. Two names that both prefix iface_name are prefixes of one another,
\* so the longer str is the one of more atoms.
\* the first matching name wins, whatever its length
RECURSIVE best_match_first(_, _, _)
best_match_first(iface_name, order, best) ==
    IF order = <<>> THEN best
    ELSE LET device_name == Head(order)
             better == StartsWith(iface_name, device_name \o <<"-">>) /\ best = None
         IN  best_match_first(iface_name, Tail(order), IF better THEN device_name ELSE best)

RECURSIVE best_match(_, _, _)
best_match(iface_name, order, best) ==
    IF order = <<>> THEN best
    ELSE LET device_name == Head(order)
             better == StartsWith(iface_name, device_name \o <<"-">>)
                       /\ (best = None \/ Len(device_name) > Len(best))
         IN  best_match(iface_name, Tail(order), IF better THEN device_name ELSE best)

normalize_interface_name(iface_name, order) ==
    LET best_match_device_name == best_match(iface_name, order, None)
    IN  IF best_match_device_name # None
        THEN Drop(iface_name, Len(best_match_device_name) + 1)
        ELSE iface_name

-----------------------------------------------------------------------------
(* Node seeding *)

\* str.lower() of the atoms that have upper-case letters
LowerAtom(a) ==
    CASE a = "ETH0" -> "eth0"
      [] a = "Eth0" -> "eth0"
      [] a = "A" -> "a"
      [] a = "B" -> "b"
      [] a = "H" -> "h"
      [] a = "OOB-MGMT" -> "oob-mgmt"
      [] a = "LEAF" -> "leaf"
      [] OTHER -> a

Lower(s) == [i \in 1..Len(s) |-> LowerAtom(s[i])]

\* the patterns of the code that occur inside an atom
SubstringsOf(a) ==
    CASE a = "superspine" -> {"superspine", "spine"}
      [] a = "oobswitch" -> {"oobswitch", "switch"}
      [] OTHER -> {a}

\* pat in s
Contains(s, pat) == \E i \in 1..Len(s) : pat \in SubstringsOf(s[i])

\* generate_topology.py: the if/elif chain on the lower-cased name
categorize_minimal(device_name) ==
    LET lower == Lower(device_name)
    IN  IF Contains(lower, "border") THEN <<1, "switch">>
        ELSE IF Contains(lower, "superspine") THEN <<2, "switch">>
        ELSE IF Contains(lower, "spine") THEN <<3, "switch">>
        ELSE IF Contains(lower, "leaf") THEN <<4, "switch">>
        ELSE IF Contains(lower, "oobswitch") THEN <<5, "switch">>
        ELSE <<9, "server">>

\* generate_topology_full.py: the configuration load_topology_config returns
\* when topology_config.yaml is absent
default_topology_config ==
    [special_rules |-> <<>>,
     device_categories |->
        << [pattern |-> "inband-fw", layer |-> 1, icon |-> "firewall"],
           [pattern |-> "border", layer |-> 2, icon |-> "switch"],
           [pattern |-> "spine", layer |-> 3, icon |-> "switch"],
           [pattern |-> "leaf", layer |-> 4, icon |-> "switch"],
           [pattern |-> "oob-fw", layer |-> 5, icon |-> "firewall"],
           [pattern |-> "core", layer |-> 6, icon |-> "switch"],
           [pattern |-> "switch", layer |-> 7, icon |-> "switch"] >>,
     default |-> [layer |-> 9, icon |-> "server"]]

\* the last matching pattern wins
RECURSIVE first_category_last(_, _, _)
first_category_last(lower, categories, default) ==
    IF categories = <<>> THEN <<default.layer, default.icon>>
    ELSE IF Contains(lower, categories[Len(categories)].pattern)
         THEN <<categories[Len(categories)].layer, categories[Len(categories)].icon>>
         ELSE first_category_last(lower, SubSeq(categories, 1, Len(categories) - 1), default)

RECURSIVE first_category(_, _, _)
first_category(lower, categories, default) ==
    IF categories = <<>> THEN <<default.layer, default.icon>>
    ELSE IF Contains(lower, Head(categories).pattern)
         THEN <<Head(categories).layer, Head(categories).icon>>
         ELSE first_category(lower, Tail(categories), default)

\* int(token) of the last "-"-separated token of a name: the atoms that are
\* decimal numbers
IntAtoms == {"1", "2", "10"}

IsIntToken(token) == Len(token) = 1 /\ token[1] \in IntAtoms

IntOfToken(token) ==
    CASE token[1] = "1" -> 1
      [] token[1] = "2" -> 2
      [] token[1] = "10" -> 10

\* device_name.split("-")[-1]
last_token(device_name) ==
    LET tokens == SplitOn(device_name, "-") IN tokens[Len(tokens)]

\* the even layer for every integer suffix
RECURSIVE check_special_rules_even_only(_, _, _)
check_special_rules_even_only(device_name, rules, checked) ==
    IF rules = <<>>
    THEN [returned |-> FALSE, layer |-> 0, icon |-> "none", checked |-> checked]
    ELSE LET rule == Head(rules)
             token == last_token(device_name)
         IN  IF Contains(device_name, rule.pattern) /\ rule.type = "even_odd_suffix"
             THEN IF IsIntToken(token)
                  THEN [returned |-> TRUE, layer |-> rule.even_layer,
                        icon |-> rule.icon, checked |-> checked + 1]
                  ELSE [returned |-> FALSE, layer |-> 0, icon |-> "none",
                        checked |-> checked + 1]
             ELSE check_special_rules_even_only(device_name, Tail(rules), checked + 1)

\* The loop of categorize_device over the special rules. returned: the loop
\* returned a category; checked: the rules whose pattern the loop tested
\* before it returned, broke or ran out
RECURSIVE check_special_rules(_, _, _)
check_special_rules(device_name, rules, checked) ==
    IF rules = <<>>
    THEN [returned |-> FALSE, layer |-> 0, icon |-> "none", checked |-> checked]
    ELSE LET rule == Head(rules)
             token == last_token(device_name)
         IN  IF Contains(device_name, rule.pattern) /\ rule.type = "even_odd_suffix"
             THEN IF IsIntToken(token)
                  THEN [returned |-> TRUE,
                        layer |-> IF IntOfToken(token) % 2 = 0 THEN rule.even_layer
                                  ELSE rule.odd_layer,
                        icon |-> rule.icon, checked |-> checked + 1]
                  ELSE [returned |-> FALSE, layer |-> 0, icon |-> "none",
                        checked |-> checked + 1]
             ELSE check_special_rules(device_name, Tail(rules), checked + 1)

\* the special rules first, then the regular patterns in order, then the default
categorize_device_after(special, device_name, config) ==
    IF special.returned THEN <<special.layer, special.icon>>
    ELSE first_category(Lower(device_name), config.device_categories, config.default)

categorize_device(device_name, config) ==
    categorize_device_after(check_special_rules(device_name, config.special_rules, 0),
                            device_name, config)

categorize(variant, device_name) ==
    IF variant = "full" THEN categorize_device(device_name, default_topology_config)
    ELSE categorize_minimal(device_name)

Node(icon, id, layer, name, info) ==
    [icon |-> icon, id |-> id, layerSortPreference |-> layer, name |-> name,
     primaryIP |-> info.primaryIP, model |-> info.model,
     serial_number |-> info.serial_number, version |-> info.version]

\* the node generate_topology_full.py makes for a device outside device_info
lldp_only_node(st, name) ==
    [st EXCEPT !.nodes = Append(@, Node("unknown", st.device_id, 9, name, NAInfo)),
               !.device_nodes = (name :> st.device_id) @@ @,
               !.device_id = @ + 1]

EmptyTopology ==
    [nodes |-> <<>>, device_nodes |-> <<>>, device_id |-> 0, links |-> <<>>,
     link_id |-> 0, all_lldp_links_found |-> {}, reachable_devices |-> {}]

\* parse_lldp_results, first loop: one node per device_info entry
RECURSIVE seed_nodes(_, _, _, _)
seed_nodes(st, variant, device_info, keys) ==
    IF keys = <<>> THEN st
    ELSE LET device_name == Head(keys)
             cat == categorize(variant, device_name)
             next == IF Contains(device_name, "OOB-MGMT") THEN st
                     ELSE [st EXCEPT
                            !.nodes = Append(@, Node(cat[2], st.device_id, cat[1],
                                                     device_name, device_info.val[device_name])),
                            !.device_nodes = (device_name :> st.device_id) @@ @,
                            !.device_id = @ + 1]
         IN  seed_nodes(next, variant, device_info, Tail(keys))

-----------------------------------------------------------------------------
(* Neighbor extraction of the reconciler *)

\* A chunk of a dump (the text between two delimiter lines) is a record of
\* what the searches of the code find in it:
\*   iface     Interface: <iface>, ...      sysName   SysName: <name>
\*   portId    PortID: ifname <port>        portDescr PortDescr: <port>
\*   cumulus   the chunk holds the text "Cumulus"
\*   blank     the chunk is empty or white space
Chunk(iface, sysName, portId, portDescr, cumulus) ==
    [iface |-> iface, sysName |-> sysName, portId |-> portId,
     portDescr |-> portDescr, cumulus |-> cumulus, blank |-> FALSE]

BlankChunk ==
    [iface |-> None, sysName |-> None, portId |-> None, portDescr |-> None,
     cumulus |-> FALSE, blank |-> TRUE]

\* the banner chunk "LLDP neighbors:"
HeaderChunk == [BlankChunk EXCEPT !.blank = FALSE]

Link(id, source, srcDevice, srcIfName, target, tgtDevice, tgtIfName, is_missing) ==
    [id |-> id, source |-> source, srcDevice |-> srcDevice, srcIfName |-> srcIfName,
     target |-> target, tgtDevice |-> tgtDevice, tgtIfName |-> tgtIfName,
     is_missing |-> is_missing]

Tuple(l) == <<l.srcDevice, l.srcIfName, l.tgtDevice, l.tgtIfName>>

Swap(t) == <<t[3], t[4], t[1], t[2]>>

\* the link and the two discovered tuples one adjacency adds
add_lldp_link(st, src, src_if, tgt, tgt_if) ==
    [st EXCEPT
        !.links = Append(@, Link(st.link_id, st.device_nodes[src], src, src_if,
                                 st.device_nodes[tgt], tgt, tgt_if, "no")),
        !.link_id = @ + 1,
        !.all_lldp_links_found = @ \cup {<<src, src_if, tgt, tgt_if>>,
                                         <<tgt, tgt_if, src, src_if>>}]

\* the body of the section loop of parse_lldp_results
lldp_section(st, variant, device_name_from_lldp, section, known_order) ==
    LET interface_name == section.iface
        neighbor_device == section.sysName
        tgt_ifname ==
            IF section.portId # None
            THEN normalize_interface_name(section.portId, known_order)
            ELSE IF section.portDescr # None
            THEN normalize_interface_name(section.portDescr, known_order)
            ELSE None
    IN  IF interface_name = None \/ neighbor_device = None THEN st
        ELSE IF tgt_ifname = None THEN st
        ELSE IF Lower(interface_name) = <<"eth0">> \/ Lower(tgt_ifname) = <<"eth0">> THEN st
        ELSE IF variant = "full"
        THEN add_lldp_link(IF neighbor_device \in DOMAIN st.device_nodes THEN st
                           ELSE lldp_only_node(st, neighbor_device),
                           device_name_from_lldp, interface_name, neighbor_device, tgt_ifname)
        ELSE IF device_name_from_lldp \in DOMAIN st.device_nodes
                /\ neighbor_device \in DOMAIN st.device_nodes
        THEN add_lldp_link(st, device_name_from_lldp, interface_name,
                           neighbor_device, tgt_ifname)
        ELSE st

RECURSIVE lldp_sections(_, _, _, _, _)
lldp_sections(st, variant, device, sections, known_order) ==
    IF sections = <<>> THEN st
    ELSE lldp_sections(lldp_section(st, variant, device, Head(sections), known_order),
                       variant, device, Tail(sections), known_order)

\* re.split on the delimiter, then the chunks that strip() leaves empty dropped
interface_sections(data) == SelectSeq(data, LAMBDA c : ~c.blank)

\* a full script that makes a placeholder node for every dump file
lldp_file_always_placeholder(st, variant, device, data, known_order) ==
    LET reached == [st EXCEPT !.reachable_devices = @ \cup {device}]
        with_node == IF variant = "full" THEN lldp_only_node(reached, device) ELSE reached
    IN  lldp_sections(with_node, variant, device, interface_sections(data), known_order)

\* the body of the os.listdir loop of parse_lldp_results for one dump file
lldp_file(st, variant, device, data, known_order) ==
    LET reached == [st EXCEPT !.reachable_devices = @ \cup {device}]
        with_node == IF variant = "full" /\ device \notin DOMAIN st.device_nodes
                     THEN lldp_only_node(reached, device)
                     ELSE reached
    IN  lldp_sections(with_node, variant, device, interface_sections(data), known_order)

RECURSIVE lldp_files(_, _, _, _, _)
lldp_files(st, variant, listing, files, known_order) ==
    IF listing = <<>> THEN st
    ELSE lldp_files(lldp_file(st, variant, Head(listing), files[Head(listing)], known_order),
                    variant, Tail(listing), files, known_order)

\* the loop without the test on hosts_only_devices
unknown_icons_hosts_too(st, device_info, hosts_only_devices) ==
    [st EXCEPT !.nodes =
        [i \in 1..Len(st.nodes) |->
            IF InDict(st.nodes[i].name, device_info)
               /\ st.nodes[i].name \notin st.reachable_devices
            THEN [st.nodes[i] EXCEPT !.icon = "unknown"]
            ELSE st.nodes[i]]]

\* the last loop of parse_lldp_results
unknown_icons(st, device_info, hosts_only_devices) ==
    [st EXCEPT !.nodes =
        [i \in 1..Len(st.nodes) |->
            IF InDict(st.nodes[i].name, device_info)
               /\ st.nodes[i].name \notin hosts_only_devices
               /\ st.nodes[i].name \notin st.reachable_devices
            THEN [st.nodes[i] EXCEPT !.icon = "unknown"]
            ELSE st.nodes[i]]]

SetToSeq(S) == CHOOSE p \in Perms(S) : TRUE

\* listing: the dump devices in the order os.listdir names their files
parse_lldp_results(variant, listing, files, device_info, hosts_only_devices) ==
    unknown_icons(
        lldp_files(seed_nodes(EmptyTopology, variant, device_info, device_info.keys),
                   variant, listing, files, SetToSeq(Range(device_info.keys))),
        device_info, hosts_only_devices)

-----------------------------------------------------------------------------
(* Topology Reconciler: generate_topology_file *)

\* a classification that looks the link up in its own orientation only
classify_link_forward_only(link, defined_links) ==
    IF Tuple(link) \notin defined_links
    THEN [link EXCEPT !.is_missing = "fail"]
    ELSE link

\* a classification that looks the link up in the swapped orientation only
classify_link_reverse_only(link, defined_links) ==
    IF Swap(Tuple(link)) \notin defined_links
    THEN [link EXCEPT !.is_missing = "fail"]
    ELSE link

\* is_missing of a discovered link after the classification loop
classify_link(link, defined_links) ==
    IF Tuple(link) \notin defined_links /\ Swap(Tuple(link)) \notin defined_links
    THEN [link EXCEPT !.is_missing = "fail"]
    ELSE link

classify_links(links, defined_links) ==
    [i \in 1..Len(links) |-> classify_link(links[i], defined_links)]

\* an injection whose test of the discovered set is inverted
inject_wanted_inverted(defined_link, all_lldp_links_found, device_nodes) ==
    /\ defined_link \in all_lldp_links_found
    /\ defined_link[1] \in DOMAIN device_nodes
    /\ defined_link[3] \in DOMAIN device_nodes

\* does the injection loop add a missing link for this defined link
inject_wanted(defined_link, all_lldp_links_found, device_nodes) ==
    /\ defined_link \notin all_lldp_links_found
    /\ Swap(defined_link) \notin all_lldp_links_found
    /\ defined_link[1] \in DOMAIN device_nodes
    /\ defined_link[3] \in DOMAIN device_nodes

\* an injection that gives every missing link the id 0
RECURSIVE inject_missing_renumbered(_, _, _, _)
inject_missing_renumbered(dl_order, all_lldp_links_found, device_nodes, current_link_id) ==
    IF dl_order = <<>> THEN <<>>
    ELSE LET d == Head(dl_order)
         IN  IF inject_wanted(d, all_lldp_links_found, device_nodes)
             THEN <<Link(0, device_nodes[d[1]], d[1], d[2],
                         device_nodes[d[3]], d[3], d[4], "yes")>>
                  \o inject_missing_renumbered(Tail(dl_order), all_lldp_links_found,
                                               device_nodes, current_link_id)
             ELSE inject_missing_renumbered(Tail(dl_order), all_lldp_links_found,
                                            device_nodes, current_link_id)

\* the injection loop over defined_links in the order the set is iterated
RECURSIVE inject_missing(_, _, _, _)
inject_missing(dl_order, all_lldp_links_found, device_nodes, current_link_id) ==
    IF dl_order = <<>> THEN <<>>
    ELSE LET d == Head(dl_order)
         IN  IF inject_wanted(d, all_lldp_links_found, device_nodes)
             THEN <<Link(current_link_id, device_nodes[d[1]], d[1], d[2],
                         device_nodes[d[3]], d[3], d[4], "yes")>>
                  \o inject_missing(Tail(dl_order), all_lldp_links_found,
                                    device_nodes, current_link_id + 1)
             ELSE inject_missing(Tail(dl_order), all_lldp_links_found,
                                 device_nodes, current_link_id)

\* a deduplication that misses the endpoint-swapped tuple
dedup_keeps_forward_only(link, seen_links_for_dedup) ==
    Tuple(link) \notin seen_links_for_dedup

\* is the link kept by the deduplication loop, given the tuples seen so far
dedup_keeps(link, seen_links_for_dedup) ==
    Tuple(link) \notin seen_links_for_dedup /\ Swap(Tuple(link)) \notin seen_links_for_dedup

\* a deduplication that keeps the last link of every pair
RECURSIVE dedup_links_last(_, _)
dedup_links_last(links, seen_links_for_dedup) ==
    IF links = <<>> THEN <<>>
    ELSE (IF \E j \in 2..Len(links) :
                Tuple(links[j]) \in {Tuple(Head(links)), Swap(Tuple(Head(links)))}
          THEN <<>> ELSE <<Head(links)>>)
         \o dedup_links_last(Tail(links), seen_links_for_dedup)

RECURSIVE dedup_links(_, _)
dedup_links(links, seen_links_for_dedup) ==
    IF links = <<>> THEN <<>>
    ELSE IF dedup_keeps(Head(links), seen_links_for_dedup)
         THEN <<Head(links)>>
              \o dedup_links(Tail(links), seen_links_for_dedup \cup {Tuple(Head(links))})
         ELSE dedup_links(Tail(links), seen_links_for_dedup)

\* list.sort(key=name): a stable insertion sort
RECURSIVE insert_by_name(_, _)
insert_by_name(sorted, node) ==
    IF sorted = <<>> THEN <<node>>
    ELSE IF StrLess(node.name, Head(sorted).name)
         THEN <<node>> \o sorted
         ELSE <<Head(sorted)>> \o insert_by_name(Tail(sorted), node)

\* the nodes left in the order of their seeding
sort_by_name_unsorted(nodes) == nodes

RECURSIVE sort_by_name(_)
sort_by_name(nodes) ==
    IF nodes = <<>> THEN <<>>
    ELSE insert_by_name(sort_by_name(SubSeq(nodes, 1, Len(nodes) - 1)), nodes[Len(nodes)])

\* id_map = {node["id"]: new_id for new_id, node in enumerate(nodes)}:
\* of two nodes with one old id the later one sets the entry
make_id_map(nodes) ==
    [old \in {nodes[i].id : i \in 1..Len(nodes)} |->
        (CHOOSE i \in 1..Len(nodes) :
            nodes[i].id = old /\ \A j \in 1..Len(nodes) : nodes[j].id = old => j <= i) - 1]

\* a rewrite that leaves the ids of the seeding in the link
rewrite_link_stale(link, id_map) == link

\* the endpoint ids of a link rewritten; the old id of the link is looked up
rewrite_link(link, id_map) ==
    [link EXCEPT !.source = id_map[link.source], !.target = id_map[link.target]]

\* An operator argument is evaluated once, so every stage below takes what
\* the earlier statements computed as arguments.

\* the id rewrite, given the kept nodes in name order and id_map. error is the
\* KeyError of a lookup of an id missing from id_map
compact_ids(kept, id_map, links) ==
    IF \A i \in 1..Len(links) :
          links[i].source \in DOMAIN id_map /\ links[i].target \in DOMAIN id_map
    THEN [error |-> "none",
          nodes |-> [i \in 1..Len(kept) |-> [kept[i] EXCEPT !.id = id_map[kept[i].id]]],
          links |-> [i \in 1..Len(links) |-> rewrite_link(links[i], id_map)]]
    ELSE [error |-> "KeyError", nodes |-> <<>>, links |-> <<>>]

\* the nodes kept by final_nodes_set, sorted by name
\* no node dropped
kept_nodes_unfiltered(nodes, final_nodes_set) == sort_by_name(nodes)

kept_nodes(nodes, final_nodes_set) ==
    sort_by_name(SelectSeq(nodes, LAMBDA n : n.name \in final_nodes_set))

compact_kept(kept, links) == compact_ids(kept, make_id_map(kept), links)

\* final_nodes_set without the inventory: the ends of the links alone
prune_and_compact_linked_only(nodes, links, device_info) ==
    compact_kept(kept_nodes(nodes,
                            {links[i].srcDevice : i \in 1..Len(links)}
                            \cup {links[i].tgtDevice : i \in 1..Len(links)}),
                 links)

\* from final_nodes_set to the id rewrite
prune_and_compact(nodes, links, device_info) ==
    compact_kept(kept_nodes(nodes,
                            Range(device_info.keys)
                            \cup {links[i].srcDevice : i \in 1..Len(links)}
                            \cup {links[i].tgtDevice : i \in 1..Len(links)}),
                 links)

topology_result(final, variant, device_info, topo, defined_links, candidates) ==
    [error |-> final.error, nodes |-> final.nodes, links |-> final.links,
     variant |-> variant, device_info |-> device_info,
     device_nodes |-> topo.device_nodes,
     all_lldp_links_found |-> topo.all_lldp_links_found,
     defined_links |-> defined_links, candidates |-> candidates]

\* deduplication, then pruning and compaction
finish_links(candidates, unique_links_filtered, variant, device_info, topo, defined_links) ==
    topology_result(prune_and_compact(topo.nodes, unique_links_filtered, device_info),
                    variant, device_info, topo, defined_links, candidates)

reconcile_candidates(candidates, variant, device_info, topo, defined_links) ==
    finish_links(candidates, dedup_links(candidates, {}), variant, device_info, topo,
                 defined_links)

\* classification of the discovered links, then injection of the missing ones
reconcile(topo, defined_links, dl_order, variant, device_info) ==
    reconcile_candidates(
        classify_links(topo.links, defined_links)
        \o inject_missing(dl_order, topo.all_lldp_links_found, topo.device_nodes,
                          topo.link_id),
        variant, device_info, topo, defined_links)

with_inventory(device_info, hosts_only_devices, variant, dot, files, listing, dl_order) ==
    reconcile(parse_lldp_results(variant, listing, files, device_info, hosts_only_devices),
              parse_topology_dot_file(dot), dl_order, variant, device_info)

\* every host of the host list taken as host-only
with_assets_all_hosts(parsed_assets, host_names, host_order, variant, dot, files, listing, dl_order) ==
    with_inventory(add_hosts(parsed_assets, host_order), host_names,
                   variant, dot, files, listing, dl_order)

with_assets(parsed_assets, host_names, host_order, variant, dot, files, listing, dl_order) ==
    with_inventory(add_hosts(parsed_assets, host_order),
                   host_names \ Range(parsed_assets.keys),
                   variant, dot, files, listing, dl_order)

\* generate_topology_file up to the write. host_order and dl_order are the
\* orders in which the sets host_names and defined_links are iterated,
\* listing the order of os.listdir
generate_topology(variant, assets, hosts, dot, files, listing, host_order, dl_order) ==
    with_assets(parse_assets_file(assets), parse_hosts_file(hosts), host_order,
                variant, dot, files, listing, dl_order)

-----------------------------------------------------------------------------
(* Per-port report: lldp-validate.py *)

Neighbor(interface, sys_name, port_id) ==
    [interface |-> interface, sys_name |-> sys_name, port_id |-> port_id]

\* the port search of the two classifier parsers: the dialect marker decides
port_id_match(chunk) == IF chunk.cumulus THEN chunk.portId ELSE chunk.portDescr

\* sys_name.split(".cm.cluster")[0] outside the Cumulus dialect
short_sys_name(chunk) ==
    IF chunk.cumulus THEN chunk.sysName ELSE SplitOn(chunk.sysName, ".cm.cluster")[1]

\* re.split(...)[1:-1]
inner_chunks(data) == SubSeq(data, 2, Len(data) - 1)

\* the records one chunk adds in parse_lldp_output of lldp-validate.py
validate_chunk(chunk) ==
    IF chunk.iface # None /\ chunk.sysName # None /\ port_id_match(chunk) # None
    THEN <<Neighbor(chunk.iface, short_sys_name(chunk), port_id_match(chunk))>>
    ELSE IF chunk.iface # None /\ port_id_match(chunk) # None
    THEN <<Neighbor(chunk.iface, <<"Unknown">>, port_id_match(chunk))>>
    ELSE <<>>

RECURSIVE validate_chunks(_)
validate_chunks(chunks) ==
    IF chunks = <<>> THEN <<>>
    ELSE validate_chunk(Head(chunks)) \o validate_chunks(Tail(chunks))

validate_parse_lldp_output(data) == validate_chunks(inner_chunks(data))

\* next((n for n in neighbors if n['interface'] == interface), None)
HasNeighbor(neighbors, interface) ==
    \E i \in 1..Len(neighbors) : neighbors[i].interface = interface

FirstNeighbor(neighbors, interface) ==
    neighbors[CHOOSE i \in 1..Len(neighbors) :
                /\ neighbors[i].interface = interface
                /\ \A j \in 1..(i - 1) : neighbors[j].interface # interface]

\* can check_connections unpack the line: one "--", one ":" on each side
line_unpacks(connection) ==
    LET sides == SplitOn(Strip(RemoveBracketed(connection)), "--")
    IN  /\ Len(sides) = 2
        /\ Len(SplitOn(Strip(RemoveAtom(sides[1], Q)), ":")) = 2
        /\ Len(SplitOn(Strip(RemoveAtom(sides[2], Q)), ":")) = 2

\* left, left_interface, right, right_interface of an expected-connection line
line_ends(connection) ==
    LET sides == SplitOn(Strip(RemoveBracketed(connection)), "--")
        l == SplitOn(Strip(RemoveAtom(sides[1], Q)), ":")
        r == SplitOn(Strip(RemoveAtom(sides[2], Q)), ":")
    IN  <<l[1], l[2], r[1], r[2]>>

\* the status check_connections gives an expected port
validate_status(has_active, active_sys_name, active_port, expected_sys_name, expected_port) ==
    IF ~has_active THEN "No-Info"
    ELSE IF expected_sys_name = <<"None">> THEN "Fail"
    ELSE IF active_sys_name = expected_sys_name /\ active_port = expected_port THEN "Pass"
    ELSE "Fail"

\* the rows one expected-connection line adds for a device
validate_expected_row(device, neighbors, connection) ==
    IF "--" \notin Range(connection) THEN <<>>
    ELSE
    LET e == line_ends(connection)
        left == e[1]
        right == e[3]
        expected_interface == IF left = device THEN e[2] ELSE e[4]
        expected_neighbor_sys_name == IF left = device THEN right ELSE left
        expected_neighbor_port == IF left = device THEN e[4] ELSE e[2]
        has_active == HasNeighbor(neighbors, expected_interface)
        active == FirstNeighbor(neighbors, expected_interface)
        active_neighbor_sys_name == IF has_active THEN active.sys_name ELSE <<"None">>
        active_neighbor_port == IF has_active THEN active.port_id ELSE <<"None">>
    IN  IF left # device /\ right # device THEN <<>>
        ELSE IF expected_interface = <<"eth0">> \/ active_neighbor_port = <<"eth0">> THEN <<>>
        ELSE << [Port |-> expected_interface,
                 Status |-> validate_status(has_active, active_neighbor_sys_name,
                                            active_neighbor_port,
                                            expected_neighbor_sys_name,
                                            expected_neighbor_port),
                 ExpNbr |-> expected_neighbor_sys_name,
                 ExpNbrPort |-> expected_neighbor_port,
                 ActNbr |-> active_neighbor_sys_name,
                 ActNbrPort |-> active_neighbor_port] >>

RECURSIVE validate_expected_rows(_, _, _)
validate_expected_rows(device, neighbors, lines) ==
    IF lines = <<>> THEN <<>>
    ELSE validate_expected_row(device, neighbors, Head(lines))
         \o validate_expected_rows(device, neighbors, Tail(lines))

\* is a discovered neighbor without a row yet given one by the second loop
validate_reports_neighbor(neighbor, valid_devices) ==
    /\ neighbor.interface # <<"eth0">>
    /\ neighbor.port_id # <<"eth0">>
    /\ neighbor.sys_name \in valid_devices

\* the second loop of check_connections: the discovered neighbors without a row
RECURSIVE validate_neighbor_rows(_, _, _)
validate_neighbor_rows(device_results, neighbors, valid_devices) ==
    IF neighbors = <<>> THEN device_results
    ELSE LET neighbor == Head(neighbors)
             add == /\ validate_reports_neighbor(neighbor, valid_devices)
                    /\ ~\E i \in 1..Len(device_results) :
                            device_results[i].Port = neighbor.interface
         IN  validate_neighbor_rows(
                IF add
                THEN Append(device_results,
                            [Port |-> neighbor.interface, Status |-> "Fail",
                             ExpNbr |-> <<"None">>, ExpNbrPort |-> <<"None">>,
                             ActNbr |-> neighbor.sys_name, ActNbrPort |-> neighbor.port_id])
                ELSE device_results,
                Tail(neighbors), valid_devices)

\* get_device_neighbors, then check_connections. An absent topology file and
\* a line that does not unpack raise out of check_connections
check_connections(dot, files) ==
    LET device_neighbors == [d \in DOMAIN files |-> validate_parse_lldp_output(files[d])]
        valid_devices == DOMAIN files
        linked == {i \in 1..Len(dot.lines) : "--" \in Range(dot.lines[i])}
    IN  IF ~dot.exists THEN [error |-> "FileNotFoundError", rows |-> <<>>]
        ELSE IF DOMAIN files # {} /\ \E i \in linked : ~line_unpacks(dot.lines[i])
        THEN [error |-> "ValueError", rows |-> <<>>]
        ELSE [error |-> "none",
              rows |-> [d \in DOMAIN files |->
                          validate_neighbor_rows(
                              validate_expected_rows(d, device_neighbors[d], dot.lines),
                              device_neighbors[d], valid_devices)]]

-----------------------------------------------------------------------------
(* Per-port classifier: lldp_analyzer.py *)

\* f.read(): the lines of the file joined by line ends
RECURSIVE file_content(_)
file_content(lines) ==
    IF lines = <<>> THEN <<>>
    ELSE Head(lines) \o <<"\n">> \o file_content(Tail(lines))

RECURSIVE SkipSpace(_, _)
SkipSpace(s, i) ==
    IF i <= Len(s) /\ s[i] \in {" ", "\n"} THEN SkipSpace(s, i + 1) ELSE i

\* "([^"]+):([^"]+)" at position i: the first group is greedy, so the text is
\* cut at its last ":" that leaves both groups non-empty
quoted_pair(s, i) ==
    LET j == IF i <= Len(s) /\ s[i] = Q THEN IndexFrom(s, Q, i + 1) ELSE 0
        seg == SubSeq(s, i + 1, j - 1)
        cuts == {k \in 2..(Len(seg) - 1) : seg[k] = ":"}
        k == CHOOSE c \in cuts : \A o \in cuts : o <= c
    IN  IF j = 0 \/ cuts = {} THEN [ok |-> FALSE, dev |-> None, port |-> None, end |-> 0]
        ELSE [ok |-> TRUE, dev |-> SubSeq(seg, 1, k - 1), port |-> Drop(seg, k), end |-> j]

\* "([^"]+):([^"]+)"\s*--\s*"([^"]+):([^"]+)" at position i
connection_at(s, i) ==
    LET a == quoted_pair(s, i)
        m == SkipSpace(s, a.end + 1)
        b == quoted_pair(s, SkipSpace(s, m + 1))
    IN  IF a.ok /\ m <= Len(s) /\ s[m] = "--" /\ b.ok
        THEN [ok |-> TRUE, link |-> <<a.dev, a.port, b.dev, b.port>>, end |-> b.end]
        ELSE [ok |-> FALSE, link |-> <<>>, end |-> 0]

\* re.findall of the pattern over the content, from position i on
RECURSIVE find_connections(_, _)
find_connections(s, i) ==
    IF i > Len(s) THEN <<>>
    ELSE LET m == connection_at(s, i)
         IN  IF m.ok THEN <<m.link>> \o find_connections(s, m.end + 1)
             ELSE find_connections(s, i + 1)

\* topology_expectations[dev][port] = {neighbor_device, neighbor_interface}
expect(expectations, dev, port, nbr_dev, nbr_port) ==
    LET old == IF dev \in DOMAIN expectations THEN expectations[dev] ELSE EmptyDict
    IN  (dev :> DictPut(old, port, [neighbor_device |-> nbr_dev,
                                    neighbor_interface |-> nbr_port]))
        @@ expectations

RECURSIVE expect_all(_, _)
expect_all(expectations, connections) ==
    IF connections = <<>> THEN expectations
    ELSE LET c == Head(connections)
         IN  expect_all(expect(expect(expectations, c[1], c[2], c[3], c[4]),
                               c[3], c[4], c[1], c[2]),
                        Tail(connections))

load_topology_expectations(file) ==
    IF ~file.exists THEN <<>>
    ELSE expect_all(<<>>, find_connections(file_content(file.lines), 1))

\* the records one chunk adds in LLDPAnalyzer.parse_lldp_output
analyzer_chunk(chunk) ==
    IF chunk.iface # None /\ chunk.sysName # None /\ port_id_match(chunk) # None
    THEN <<Neighbor(chunk.iface, short_sys_name(chunk), port_id_match(chunk))>>
    ELSE <<>>

RECURSIVE analyzer_chunks(_)
analyzer_chunks(chunks) ==
    IF chunks = <<>> THEN <<>>
    ELSE analyzer_chunk(Head(chunks)) \o analyzer_chunks(Tail(chunks))

analyzer_parse_lldp_output(data) == analyzer_chunks(inner_chunks(data))

Connection(dev, interface, nbr, nbr_if, state, exp_nbr, exp_if) ==
    [source_device |-> dev, source_interface |-> interface, neighbor_device |-> nbr,
     neighbor_interface |-> nbr_if, state |-> state, expected_neighbor |-> exp_nbr,
     expected_interface |-> exp_if]

\* the match on the neighbor device alone
is_established_device_only(actual_neighbor, expectation) ==
    actual_neighbor.sys_name = expectation.neighbor_device

\* does the discovered neighbor match the expectation of its interface
is_established(actual_neighbor, expectation) ==
    /\ actual_neighbor.sys_name = expectation.neighbor_device
    /\ actual_neighbor.port_id = expectation.neighbor_interface

\* first loop of analyze_device_connections: the connection of one expected port
expected_connection(device_name, neighbors, interface, expectation) ==
    IF ~HasNeighbor(neighbors, interface)
    THEN Connection(device_name, interface, <<"MISSING">>, <<"MISSING">>, "missing",
                    expectation.neighbor_device, expectation.neighbor_interface)
    ELSE LET actual_neighbor == FirstNeighbor(neighbors, interface)
         IN  Connection(device_name, interface, actual_neighbor.sys_name,
                        actual_neighbor.port_id,
                        IF is_established(actual_neighbor, expectation)
                        THEN "established" ELSE "mismatch",
                        expectation.neighbor_device, expectation.neighbor_interface)

\* second loop of analyze_device_connections: is the neighbor reported unexpected
is_unexpected(neighbor, expected_connections) ==
    /\ neighbor.interface # <<"eth0">>
    /\ neighbor.port_id # <<"eth0">>
    /\ ~InDict(neighbor.interface, expected_connections)

RECURSIVE unexpected_connections(_, _, _)
unexpected_connections(device_name, neighbors, expected_connections) ==
    IF neighbors = <<>> THEN <<>>
    ELSE (IF is_unexpected(Head(neighbors), expected_connections)
          THEN <<Connection(device_name, Head(neighbors).interface, Head(neighbors).sys_name,
                            Head(neighbors).port_id, "unexpected", None, None)>>
          ELSE <<>>)
         \o unexpected_connections(device_name, Tail(neighbors), expected_connections)

analyze_device_connections(expectations, device_name, neighbors) ==
    LET expected_connections ==
            IF device_name \in DOMAIN expectations THEN expectations[device_name]
            ELSE EmptyDict
    IN  [i \in 1..Len(expected_connections.keys) |->
            expected_connection(device_name, neighbors, expected_connections.keys[i],
                                expected_connections.val[expected_connections.keys[i]])]
        \o unexpected_connections(device_name, neighbors, expected_connections)

\* a health that takes a mismatch for a warning
assess_connection_health_lenient(connection) ==
    CASE connection.state = "established" -> "excellent"
      [] connection.state = "unexpected" -> "warning"
      [] connection.state = "mismatch" -> "warning"
      [] connection.state = "missing" -> "critical"
      [] OTHER -> "unknown"

assess_connection_health(connection) ==
    CASE connection.state = "established" -> "excellent"
      [] connection.state = "unexpected" -> "warning"
      [] connection.state = "mismatch" -> "critical"
      [] connection.state = "missing" -> "critical"
      [] OTHER -> "unknown"

CountState(connections, state) ==
    Cardinality({i \in 1..Len(connections) : connections[i].state = state})

\* the entry update_lldp_stats stores for a device
lldp_stats(expectations, device_name, data) ==
    LET connections == analyze_device_connections(expectations, device_name,
                                                  analyzer_parse_lldp_output(data))
    IN  [device_name |-> device_name,
         total_connections |-> Len(connections),
         established_connections |-> CountState(connections, "established"),
         missing_connections |-> CountState(connections, "missing"),
         mismatched_connections |-> CountState(connections, "mismatch"),
         unexpected_connections |-> CountState(connections, "unexpected"),
         connections |-> [i \in 1..Len(connections) |->
                            [c |-> connections[i],
                             health |-> assess_connection_health(connections[i])]]]

-----------------------------------------------------------------------------
(* The input files of a snapshot *)

A == <<"A">>
B == <<"B">>
H == <<"H">>
swp1 == <<"swp1">>
swp3 == <<"swp3">>

File(lines) == [exists |-> TRUE, lines |-> lines]
NoFile == [exists |-> FALSE, lines |-> <<>>]

SeqsUpTo(S, n) == UNION {[1..k -> S] : k \in 0..n}

AssetHeader == <<<<"DEVICE">>, <<"IP">>, <<"MAC">>, <<"SERIAL">>, <<"MODEL">>, <<"VERSION">>>>

AssetLine(d) ==
    <<d, <<"ip">> \o d, <<"mac">> \o d, <<"serial">> \o d, <<"SN2700">>, <<"5.9">>>>

AssetsOf(devices) == File(<<AssetHeader>> \o [i \in 1..Len(devices) |-> AssetLine(devices[i])])

\* "d":"p" -- "e":"q", the form parse_topology_dot_file reads
SplitLine(d, p, e, q) ==
    <<Q>> \o d \o <<Q, ":", Q>> \o p \o <<Q, " ", "--", " ", Q>>
          \o e \o <<Q, ":", Q>> \o q \o <<Q>>

\* "d:p" -- "e:q", the form load_topology_expectations reads
JoinedLine(d, p, e, q) ==
    <<Q>> \o d \o <<":">> \o p \o <<Q, " ", "--", " ", Q>> \o e \o <<":">> \o q \o <<Q>>

\* a dump as lldpcli prints it: delimiter, banner, delimiter, then every
\* section followed by a delimiter
DumpOf(sections) == <<BlankChunk, HeaderChunk>> \o sections \o <<BlankChunk>>

Peer(d) == IF d = A THEN B ELSE A

DumpDevices == {A, B}

DumpChoices(sections) ==
    {[present |-> FALSE, sections |-> <<>>]}
    \cup {[present |-> TRUE, sections |-> s] : s \in SeqsUpTo(sections, MaxSections)}

DumpFilesOf(ca, cb) ==
    LET c == (A :> ca) @@ (B :> cb)
    IN  [d \in {x \in DumpDevices : c[x].present} |-> DumpOf(c[d].sections)]

\* Reconciler snapshots: every section names the peer, with the port bare or
\* prefixed by the peer's name; each section of A has its reverse among B's
TopoSections(d) ==
    IF d = A
    THEN {Chunk(swp1, B, B \o <<"-">> \o swp3, None, TRUE),
          Chunk(swp1, B, swp1, None, TRUE),
          Chunk(swp3, B, swp1, None, TRUE)}
    ELSE {Chunk(swp3, A, A \o <<"-">> \o swp1, None, TRUE),
          Chunk(swp1, A, swp1, None, TRUE),
          Chunk(swp1, A, swp3, None, TRUE)}

\* parse_topology_dot_file keeps the links as a set: the link lines of a file
\* are distinct and in one order
TopoLineOrder ==
    <<SplitLine(A, swp1, B, swp3), SplitLine(B, swp3, A, swp1),
      SplitLine(A, swp3, B, swp1), JoinedLine(A, swp1, B, swp3)>>

PickLines(I) == [k \in 1..Cardinality(I) |->
                    TopoLineOrder[CHOOSE i \in I : Cardinality({j \in I : j < i}) = k - 1]]

TopoDotFiles ==
    {File(PickLines(I)) : I \in {J \in SUBSET (1..Len(TopoLineOrder)) : Cardinality(J) <= MaxLines}}

\* Inventories: A and B in the asset table; A alone, with the host H; A and B
\* with the hosts H and B
TopoInventories ==
    {<<AssetsOf(<<B, A>>), NoFile>>, <<AssetsOf(<<A>>), File(<<H>>)>>,
     <<AssetsOf(<<A, B>>), File(<<H, B>>)>>}

NoTopology == [written |-> FALSE, nodes |-> <<>>, links |-> <<>>]

NoLocals ==
    [ran |-> FALSE, error |-> "none", variant |-> "none", device_info |-> EmptyDict,
     device_nodes |-> <<>>, all_lldp_links_found |-> {}, defined_links |-> {},
     candidates |-> <<>>]

NoResults == [ran |-> FALSE, error |-> "none", rows |-> <<>>]

\* main.html as installed: it has a </body> and no "Created on" button yet
InstalledHtml == [exists |-> TRUE, created_on |-> "none", written |-> FALSE]

NoCall == [called |-> FALSE, iface_name |-> None, known_device_names |-> {}, result |-> None]

NoCategorization ==
    [called |-> FALSE, variant |-> "none", device_name |-> None,
     config |-> default_topology_config, layer |-> 0, icon |-> "none", rules_checked |-> 0]

\* __main__ of lldp-validate.py before its first statement; report is the
\* state of lldp-results/lldp_results.ini
NotStarted == [pc |-> "start", files_in_order |-> <<>>, report |-> "none"]

NotCompared == [ran |-> FALSE, minimal |-> NoTopology, full |-> NoTopology]

InitOutputs ==
    /\ mainHtml = InstalledHtml
    /\ exitStatus = [exited |-> FALSE, status |-> 0]
    /\ topologyJs = NoTopology
    /\ locals = NoLocals
    /\ results = NoResults
    /\ topology_expectations = load_topology_expectations(dotFile)
    /\ current_lldp_stats = <<>>
    /\ validateRun = NotStarted
    /\ bothScripts = NotCompared

InitTopo ==
    /\ \E inv \in TopoInventories : assetsFile = inv[1] /\ hostsFile = inv[2]
    /\ dotFile \in TopoDotFiles
    /\ topologyType \in {"minimal", "full"}
    /\ \E ca \in DumpChoices(TopoSections(A)), cb \in DumpChoices(TopoSections(B)) :
          /\ Len(ca.sections) + Len(cb.sections) <= MaxSections
          /\ dumpFiles = DumpFilesOf(ca, cb)
    /\ dumpDirExists = TRUE
    /\ normalizer = NoCall
    /\ categorizer = NoCategorization
    /\ InitOutputs

\* get_topology_script_name: the script lldp-validate.py runs
topology_script(topology_type) == IF topology_type = "full" THEN "full" ELSE "minimal"

WriteTopology(r) ==
    /\ locals' = [ran |-> TRUE, error |-> r.error, variant |-> r.variant,
                  device_info |-> r.device_info, device_nodes |-> r.device_nodes,
                  all_lldp_links_found |-> r.all_lldp_links_found,
                  defined_links |-> r.defined_links, candidates |-> r.candidates]
    /\ topologyJs' = IF r.error = "none"
                     THEN [written |-> TRUE, nodes |-> r.nodes, links |-> r.links]
                     ELSE topologyJs
    /\ exitStatus' = [exited |-> TRUE, status |-> IF r.error = "none" THEN 0 ELSE 1]

\* append_creation_time_to_html: the old button removed, a new one put before
\* </body>, the file written
append_creation_time_to_html(html) ==
    IF html.exists THEN [html EXCEPT !.created_on = "now", !.written = TRUE] ELSE html

\* what __main__ does before it looks for the dump directory
before_directory_check(variant, html) ==
    IF variant = "full" THEN append_creation_time_to_html(html) ELSE html

\* One run of generate_topology.py (minimal) or generate_topology_full.py
\* (full) on the snapshot, the write of topology.js included
GenerateTopologyFile ==
    /\ dumpDirExists
    /\ mainHtml' = before_directory_check(topology_script(topologyType), mainHtml)
    /\ \E listing \in Perms(DOMAIN dumpFiles),
          host_order \in Perms(parse_hosts_file(hostsFile)),
          dl_order \in Perms(parse_topology_dot_file(dotFile)) :
            WriteTopology(generate_topology(topology_script(topologyType), assetsFile,
                                            hostsFile, dotFile, dumpFiles, listing,
                                            host_order, dl_order))
    /\ UNCHANGED <<assetsFile, hostsFile, dotFile, dumpFiles, dumpDirExists, normalizer,
                   categorizer, topologyType, results, topology_expectations,
                   current_lldp_stats, validateRun, bothScripts>>

\* __main__ of the topology script when lldp-results is not a directory
ExitNoDirectory ==
    /\ ~dumpDirExists
    /\ mainHtml' = before_directory_check(topology_script(topologyType), mainHtml)
    /\ exitStatus' = [exited |-> TRUE, status |-> 1]
    /\ UNCHANGED <<assetsFile, hostsFile, dotFile, dumpFiles, dumpDirExists, normalizer,
                   categorizer, topologyType, topologyJs, locals, results,
                   topology_expectations, current_lldp_stats, validateRun, bothScripts>>

NextTopo == GenerateTopologyFile

SpecTopo == InitTopo /\ [][NextTopo]_vars

-----------------------------------------------------------------------------
(* The reconciler on inventories with gaps *)

Mgmt == <<"OOB-MGMT">>
Leaf == <<"leaf">>
eth0 == <<"eth0">>

\* A's sections: the neighbor B, the neighbor OOB-MGMT, a section on the
\* management interface in another letter case, a section without SysName.
\* B's section: the reverse of A's first
InvSections(d) ==
    IF d = A
    THEN {Chunk(swp1, B, B \o <<"-">> \o swp3, None, TRUE),
          Chunk(swp3, Mgmt, swp1, None, TRUE),
          Chunk(<<"Eth0">>, B, swp1, None, TRUE),
          Chunk(swp1, None, swp3, None, TRUE)}
    ELSE {Chunk(swp3, A, swp1, None, TRUE)}

InvLines ==
    {SplitLine(A, swp1, B, swp3), SplitLine(A, eth0, B, eth0), SplitLine(A, swp1, Mgmt, swp1)}

InvDotFiles == {NoFile} \cup {File(l) : l \in SeqsUpTo(InvLines, 1)}

\* no inventory at all; B in the asset table with the hosts H and OOB-MGMT; A
\* and OOB-MGMT in the asset table with the hosts leaf and B; A and B in the
\* asset table with the hosts B and H
InvInventories ==
    {<<NoFile, NoFile>>, <<AssetsOf(<<B>>), File(<<H, Mgmt>>)>>,
     <<AssetsOf(<<A, Mgmt>>), File(<<Leaf, B>>)>>,
     <<AssetsOf(<<A, B>>), File(<<B, H>>)>>}

InitInventory ==
    /\ \E inv \in InvInventories : assetsFile = inv[1] /\ hostsFile = inv[2]
    /\ dotFile \in InvDotFiles
    /\ topologyType \in {"minimal", "full"}
    /\ dumpDirExists \in BOOLEAN
    /\ \E ca \in DumpChoices(InvSections(A)), cb \in DumpChoices(InvSections(B)) :
          /\ Len(ca.sections) + Len(cb.sections) <= MaxSections
          /\ dumpDirExists \/ (~ca.present /\ ~cb.present)
          /\ dumpFiles = DumpFilesOf(ca, cb)
    /\ normalizer = NoCall
    /\ categorizer = NoCategorization
    /\ InitOutputs

NextInventory ==
    \/ GenerateTopologyFile
    \/ ExitNoDirectory

SpecInventory == InitInventory /\ [][NextInventory]_vars

-----------------------------------------------------------------------------
(* The Interface Name Normalizer alone *)

NormNames == {A, B, Leaf, Leaf \o <<"-", "1">>}

NormIfaces ==
    {swp3, B \o <<"-">> \o swp3, Leaf \o <<"-">> \o swp3,
     Leaf \o <<"-", "1", "-">> \o swp3, Leaf \o <<"-", "1">>, B \o <<"-">>}

InitNormalizer ==
    /\ assetsFile = NoFile
    /\ hostsFile = NoFile
    /\ dotFile = NoFile
    /\ topologyType = "minimal"
    /\ dumpDirExists = TRUE
    /\ dumpFiles = <<>>
    /\ \E iface_name \in NormIfaces, known_device_names \in SUBSET NormNames :
          normalizer = [called |-> FALSE, iface_name |-> iface_name,
                        known_device_names |-> known_device_names, result |-> None]
    /\ categorizer = NoCategorization
    /\ InitOutputs

\* a call of normalize_interface_name; order is the order in which the set
\* known_device_names is iterated
NormalizeInterfaceName ==
    /\ \E order \in Perms(normalizer.known_device_names) :
          normalizer' = [normalizer EXCEPT
                            !.called = TRUE,
                            !.result = normalize_interface_name(normalizer.iface_name, order)]
    /\ UNCHANGED <<assetsFile, hostsFile, dotFile, dumpFiles, dumpDirExists, mainHtml,
                   exitStatus, categorizer, topologyType, topologyJs, locals, results,
                   topology_expectations, current_lldp_stats, validateRun, bothScripts>>

NextNormalizer == NormalizeInterfaceName

SpecNormalizer == InitNormalizer /\ [][NextNormalizer]_vars

-----------------------------------------------------------------------------
(* The categorization of a device name alone *)

\* regular patterns of one configuration
MaxCategories == 2
\* special rules of one configuration
MaxRules == 2

CatNames ==
    {<<"leaf", "-", "1">>, <<"leaf", "-", "2">>, <<"leaf", "-", "x">>, <<"LEAF", "-", "2">>,
     <<"superspine", "-", "1">>, <<"leaf", "-", "oobswitch">>, H}

CatCategories ==
    {[pattern |-> "spine", layer |-> 3, icon |-> "switch"],
     [pattern |-> "superspine", layer |-> 2, icon |-> "switch"],
     [pattern |-> "leaf", layer |-> 4, icon |-> "switch"],
     [pattern |-> "switch", layer |-> 7, icon |-> "router"]}

CatRules ==
    {[pattern |-> "leaf", type |-> "even_odd_suffix", even_layer |-> 5, odd_layer |-> 6,
      icon |-> "firewall"],
     [pattern |-> "spine", type |-> "even_odd_suffix", even_layer |-> 7, odd_layer |-> 8,
      icon |-> "router"],
     [pattern |-> "leaf", type |-> "none", even_layer |-> 1, odd_layer |-> 1,
      icon |-> "cloud"]}

\* the lists of distinct elements of S, n at most: a YAML list of rules
ListsUpTo(S, n) ==
    {s \in SeqsUpTo(S, n) : \A i, j \in 1..Len(s) : s[i] = s[j] => i = j}

CatConfigs ==
    {[special_rules |-> r, device_categories |-> c, default |-> [layer |-> 9, icon |-> "server"]] :
        r \in ListsUpTo(CatRules, MaxRules), c \in ListsUpTo(CatCategories, MaxCategories)}

\* generate_topology.py has no configuration file
InitCategorizer ==
    /\ assetsFile = NoFile
    /\ hostsFile = NoFile
    /\ dotFile = NoFile
    /\ topologyType = "minimal"
    /\ dumpDirExists = TRUE
    /\ dumpFiles = <<>>
    /\ normalizer = NoCall
    /\ \E device_name \in CatNames :
          \/ \E config \in CatConfigs :
                categorizer = [NoCategorization EXCEPT !.variant = "full",
                                                      !.device_name = device_name,
                                                      !.config = config]
          \/ categorizer = [NoCategorization EXCEPT !.variant = "minimal",
                                                   !.device_name = device_name]
    /\ InitOutputs

\* the category a node gets when it is seeded: the if/elif chain of
\* generate_topology.py or categorize_device of generate_topology_full.py
Categorized(c, special, category) ==
    [c EXCEPT !.called = TRUE, !.layer = category[1], !.icon = category[2],
              !.rules_checked = special.checked]

CategorizeDevice ==
    /\ categorizer.variant # "none"
    /\ categorizer' =
          IF categorizer.variant = "full"
          THEN Categorized(categorizer,
                           check_special_rules(categorizer.device_name,
                                               categorizer.config.special_rules, 0),
                           categorize_device(categorizer.device_name, categorizer.config))
          ELSE Categorized(categorizer, [checked |-> 0],
                           categorize_minimal(categorizer.device_name))
    /\ UNCHANGED <<assetsFile, hostsFile, dotFile, dumpFiles, dumpDirExists, mainHtml,
                   exitStatus, normalizer, topologyType, topologyJs, locals, results,
                   topology_expectations, current_lldp_stats, validateRun, bothScripts>>

NextCategorizer == CategorizeDevice

SpecCategorizer == InitCategorizer /\ [][NextCategorizer]_vars

-----------------------------------------------------------------------------
(* The classifiers on a snapshot *)

\* Classifier snapshots. A's sections: the expected neighbor with the port
\* bare, the same with the port prefixed by the peer's name, a neighbor on
\* another port, and a section without SysName
ClassSections ==
    {Chunk(swp1, B, swp3, None, TRUE),
     Chunk(swp1, B, B \o <<"-">> \o swp3, None, TRUE),
     Chunk(swp3, B, swp1, None, TRUE),
     Chunk(swp3, None, swp1, None, TRUE)}

ClassLines ==
    {JoinedLine(A, swp1, B, swp3), JoinedLine(A, swp1, B, swp1),
     JoinedLine(B, swp1, A, swp3), SplitLine(A, swp1, B, swp3)}

\* B has no dump or a dump without sections
InitClassifier ==
    /\ assetsFile = NoFile
    /\ hostsFile = NoFile
    /\ topologyType = "minimal"
    /\ dotFile \in {NoFile} \cup {File(l) : l \in SeqsUpTo(ClassLines, MaxLines)}
    /\ \E ca \in DumpChoices(ClassSections), b \in BOOLEAN :
          dumpFiles = DumpFilesOf(ca, [present |-> b, sections |-> <<>>])
    /\ dumpDirExists = TRUE
    /\ normalizer = NoCall
    /\ categorizer = NoCategorization
    /\ InitOutputs

\* lldp-validate.py: get_device_neighbors and check_connections
CheckConnections ==
    /\ results' = [ran |-> TRUE] @@ check_connections(dotFile, dumpFiles)
    /\ UNCHANGED <<assetsFile, hostsFile, dotFile, dumpFiles, dumpDirExists, mainHtml,
                   exitStatus, normalizer, categorizer, topologyType, topologyJs, locals,
                   topology_expectations, current_lldp_stats, validateRun, bothScripts>>

\* LLDPAnalyzer.update_lldp_stats for the dump of one device
UpdateLldpStats(device_name) ==
    /\ device_name \in DOMAIN dumpFiles
    /\ current_lldp_stats' =
          (device_name :> lldp_stats(topology_expectations, device_name,
                                     dumpFiles[device_name]))
          @@ current_lldp_stats
    /\ UNCHANGED <<assetsFile, hostsFile, dotFile, dumpFiles, dumpDirExists, mainHtml,
                   exitStatus, normalizer, categorizer, topologyType, topologyJs, locals,
                   results, topology_expectations, validateRun, bothScripts>>

NextClassifier ==
    \/ CheckConnections
    \/ \E device_name \in DumpDevices : UpdateLldpStats(device_name)

SpecClassifier == InitClassifier /\ [][NextClassifier]_vars

-----------------------------------------------------------------------------
(* The three loaders of the expected topology on annotated lines *)

\* a bracketed annotation after the link, without and with a quoted value
PlainAnnotation == <<" ", "[", "style", "=", "dashed", "]">>
QuotedAnnotation == <<" ", "[", "color", "=", Q, "red", Q, "]">>

\* the link A:swp1 - B:swp3 in the two forms, bare and annotated
LoaderLines ==
    {l \o a : l \in {SplitLine(A, swp1, B, swp3), JoinedLine(A, swp1, B, swp3)},
              a \in {<<>>, PlainAnnotation, QuotedAnnotation}}

\* A and B in the asset table; A's dump reports the link
InitLoaders ==
    /\ assetsFile = AssetsOf(<<A, B>>)
    /\ hostsFile = NoFile
    /\ dotFile \in {File(l) : l \in SeqsUpTo(LoaderLines, MaxLines)}
    /\ topologyType \in {"minimal", "full"}
    /\ dumpFiles = DumpFilesOf([present |-> TRUE,
                                sections |-> <<Chunk(swp1, B, swp3, None, TRUE)>>],
                               [present |-> FALSE, sections |-> <<>>])
    /\ dumpDirExists = TRUE
    /\ normalizer = NoCall
    /\ categorizer = NoCategorization
    /\ InitOutputs

NextLoaders ==
    \/ GenerateTopologyFile
    \/ CheckConnections
    \/ \E device_name \in DumpDevices : UpdateLldpStats(device_name)

SpecLoaders == InitLoaders /\ [][NextLoaders]_vars

-----------------------------------------------------------------------------
(* One run of lldp-validate.py: __main__ statement by statement *)

\* the dump sections of A in a run
RunSections == {Chunk(swp1, B, swp3, None, TRUE), Chunk(swp3, B, swp1, None, TRUE)}

\* topology.dot absent, empty or with one expected link
RunDotFiles ==
    {NoFile, File(<<>>), File(<<JoinedLine(A, swp1, B, swp3)>>),
     File(<<SplitLine(A, swp1, B, swp3)>>)}

\* dumpDirExists: is there a directory lldp-results where the topology script
\* is started (the script names it relative to the working directory,
\* lldp-validate.py relative to its own place)
InitValidateRun ==
    /\ assetsFile = AssetsOf(<<A, B>>)
    /\ hostsFile = NoFile
    /\ dotFile \in RunDotFiles
    /\ topologyType \in {"minimal", "full"}
    /\ \E ca \in DumpChoices(RunSections), b \in BOOLEAN :
          dumpFiles = DumpFilesOf(ca, [present |-> b, sections |-> <<>>])
    /\ dumpDirExists \in BOOLEAN
    /\ normalizer = NoCall
    /\ categorizer = NoCategorization
    /\ InitOutputs

\* sorted(os.listdir(lldp_dir)): the dump files by name
sorted_listing(devices) ==
    CHOOSE p \in Perms(devices) : \A i, j \in 1..Len(p) : i < j => StrLess(p[i], p[j])

\* get_device_neighbors
GetDeviceNeighbors ==
    /\ validateRun.pc = "start"
    /\ validateRun' = [validateRun EXCEPT !.pc = "check",
                                          !.files_in_order = sorted_listing(DOMAIN dumpFiles)]
    /\ UNCHANGED <<assetsFile, hostsFile, dotFile, dumpFiles, dumpDirExists, mainHtml,
                   exitStatus, normalizer, categorizer, topologyType, topologyJs, locals,
                   results, topology_expectations, current_lldp_stats, bothScripts>>

\* results = check_connections(...): an exception ends the run
RunCheckConnections ==
    /\ validateRun.pc = "check"
    /\ results' = [ran |-> TRUE] @@ check_connections(dotFile, dumpFiles)
    /\ validateRun' = [validateRun EXCEPT
                          !.pc = IF check_connections(dotFile, dumpFiles).error = "none"
                                 THEN "report" ELSE "aborted"]
    /\ UNCHANGED <<assetsFile, hostsFile, dotFile, dumpFiles, dumpDirExists, mainHtml,
                   exitStatus, normalizer, categorizer, topologyType, topologyJs, locals,
                   topology_expectations, current_lldp_stats, bothScripts>>

\* the with block that writes lldp_results.ini: it runs to its end, or open
\* or a write raises and the run ends with the file absent or cut short
WriteReport ==
    /\ validateRun.pc = "report"
    /\ \E outcome \in {"complete", "partial", "none"} :
          validateRun' = [validateRun EXCEPT
                             !.report = outcome,
                             !.pc = IF outcome = "complete" THEN "topology" ELSE "aborted"]
    /\ UNCHANGED <<assetsFile, hostsFile, dotFile, dumpFiles, dumpDirExists, mainHtml,
                   exitStatus, normalizer, categorizer, topologyType, topologyJs, locals,
                   results, topology_expectations, current_lldp_stats, bothScripts>>

\* a run that goes on whatever the exit status of the topology script
after_topology_unchecked(status) == "remove"

\* subprocess.run(..., check=True): a non-zero exit status raises
after_topology(status) == IF status = 0 THEN "remove" ELSE "aborted"

\* the topology script as a subprocess, from its start to its exit
RunTopologyScript ==
    /\ validateRun.pc = "topology"
    /\ mainHtml' = before_directory_check(topology_script(topologyType), mainHtml)
    /\ IF dumpDirExists
       THEN \E listing \in Perms(DOMAIN dumpFiles),
               host_order \in Perms(parse_hosts_file(hostsFile)),
               dl_order \in Perms(parse_topology_dot_file(dotFile)) :
                 WriteTopology(generate_topology(topology_script(topologyType), assetsFile,
                                                 hostsFile, dotFile, dumpFiles, listing,
                                                 host_order, dl_order))
       ELSE /\ exitStatus' = [exited |-> TRUE, status |-> 1]
            /\ UNCHANGED <<topologyJs, locals>>
    /\ validateRun' = [validateRun EXCEPT !.pc = after_topology(exitStatus'.status)]
    /\ UNCHANGED <<assetsFile, hostsFile, dotFile, dumpFiles, dumpDirExists, normalizer,
                   categorizer, topologyType, results, topology_expectations,
                   current_lldp_stats, bothScripts>>

\* the files of files_in_order that are still there
remaining(files_in_order, files) == SelectSeq(files_in_order, LAMBDA d : d \in DOMAIN files)

\* one turn of the last loop: os.remove of the next dump file
RemoveDumpFile ==
    /\ validateRun.pc = "remove"
    /\ LET left == remaining(validateRun.files_in_order, dumpFiles)
       IN  IF left = <<>>
           THEN /\ validateRun' = [validateRun EXCEPT !.pc = "done"]
                /\ UNCHANGED dumpFiles
           ELSE /\ dumpFiles' = [d \in DOMAIN dumpFiles \ {Head(left)} |-> dumpFiles[d]]
                /\ UNCHANGED validateRun
    /\ UNCHANGED <<assetsFile, hostsFile, dotFile, dumpDirExists, mainHtml, exitStatus,
                   normalizer, categorizer, topologyType, topologyJs, locals, results,
                   topology_expectations, current_lldp_stats, bothScripts>>

NextValidateRun ==
    \/ GetDeviceNeighbors
    \/ RunCheckConnections
    \/ WriteReport
    \/ RunTopologyScript
    \/ RemoveDumpFile

SpecValidateRun == InitValidateRun /\ [][NextValidateRun]_vars

-----------------------------------------------------------------------------
(* The two topology scripts on one snapshot *)

Oobswitch == <<"oobswitch">>

\* the inventories of the reconciler snapshots, and A, B and oobswitch in the
\* asset table
BothInventories == TopoInventories \cup {<<AssetsOf(<<A, B, Oobswitch>>), NoFile>>}

\* topology.js as a script leaves it: what it wrote, or the file as it was
written_graph(r, before) ==
    IF r.error = "none" THEN [written |-> TRUE, nodes |-> r.nodes, links |-> r.links]
    ELSE before

\* the type in topology_config.yaml plays no part: both scripts are run
InitBothScripts ==
    /\ \E inv \in BothInventories : assetsFile = inv[1] /\ hostsFile = inv[2]
    /\ dotFile \in TopoDotFiles
    /\ topologyType = "minimal"
    /\ \E ca \in DumpChoices(TopoSections(A)), cb \in DumpChoices(TopoSections(B)) :
          /\ Len(ca.sections) + Len(cb.sections) <= MaxSections
          /\ dumpFiles = DumpFilesOf(ca, cb)
    /\ dumpDirExists = TRUE
    /\ normalizer = NoCall
    /\ categorizer = NoCategorization
    /\ InitOutputs

\* what is left after generate_topology.py (result m) and then
\* generate_topology_full.py (result f) ran on the snapshot
AfterBothScripts(m, f) ==
    /\ bothScripts' = [ran |-> TRUE, minimal |-> written_graph(m, NoTopology),
                       full |-> written_graph(f, NoTopology)]
    /\ topologyJs' = written_graph(f, written_graph(m, topologyJs))
    /\ locals' = [ran |-> TRUE, error |-> f.error, variant |-> f.variant,
                  device_info |-> f.device_info, device_nodes |-> f.device_nodes,
                  all_lldp_links_found |-> f.all_lldp_links_found,
                  defined_links |-> f.defined_links, candidates |-> f.candidates]
    /\ exitStatus' = [exited |-> TRUE, status |-> IF f.error = "none" THEN 0 ELSE 1]
    /\ mainHtml' = before_directory_check("full", before_directory_check("minimal", mainHtml))

\* generate_topology.py, then generate_topology_full.py, on the same files
\* and with the same orders of the directory listing and of the sets
RunBothScripts ==
    /\ \E listing \in Perms(DOMAIN dumpFiles),
          host_order \in Perms(parse_hosts_file(hostsFile)),
          dl_order \in Perms(parse_topology_dot_file(dotFile)) :
            AfterBothScripts(
                generate_topology("minimal", assetsFile, hostsFile, dotFile, dumpFiles,
                                  listing, host_order, dl_order),
                generate_topology("full", assetsFile, hostsFile, dotFile, dumpFiles,
                                  listing, host_order, dl_order))
    /\ UNCHANGED <<assetsFile, hostsFile, dotFile, dumpFiles, dumpDirExists, normalizer,
                   categorizer, topologyType, results, topology_expectations,
                   current_lldp_stats, validateRun>>

NextBothScripts == RunBothScripts

SpecBothScripts == InitBothScripts /\ [][NextBothScripts]_vars

-----------------------------------------------------------------------------
(* Claims about the reconciler, checked under SpecTopo *)

FinalLinks == topologyJs.links
FinalNodes == topologyJs.nodes
FinalIdx == 1..Len(FinalLinks)

SamePair(t, u) == t = u \/ t = Swap(u)

Discovered(l) == l.is_missing # "yes"

\* two candidate links that report one link from its two ends
OppositeReports(i, j) ==
    /\ Discovered(locals.candidates[i])
    /\ Discovered(locals.candidates[j])
    /\ locals.candidates[i].srcDevice # locals.candidates[j].srcDevice
    /\ Tuple(locals.candidates[i]) = Swap(Tuple(locals.candidates[j]))

\* C1: the final link list never holds two links of one undirected pair
\* (the same 4-tuple or the endpoint-swapped one); a link that both of its
\* ends report is in the final list exactly once.
C1_NoDuplicateLinks ==
    topologyJs.written =>
        /\ \A i, j \in FinalIdx :
              i # j => ~SamePair(Tuple(FinalLinks[i]), Tuple(FinalLinks[j]))
        /\ locals.ran =>
              \A i, j \in 1..Len(locals.candidates) :
                 OppositeReports(i, j) =>
                    Cardinality({k \in FinalIdx :
                        SamePair(Tuple(FinalLinks[k]), Tuple(locals.candidates[i]))}) = 1

C1_Witness ==
    /\ topologyJs.written
    /\ \E i, j \in 1..Len(locals.candidates) : OppositeReports(i, j)

\* C2: a second run on the same input files writes the same graph artifact,
\* whatever the orders of the directory listing and of the set iterations.
C2_SameArtifactEveryRun ==
    [][(topologyJs.written /\ topologyJs'.written) => topologyJs' = topologyJs]_vars

\* Scenario 1: A's dump reports swp1 -> B, B-swp3
Scenario1Dump ==
    /\ A \in DOMAIN dumpFiles
    /\ \E i \in 1..Len(dumpFiles[A]) :
          dumpFiles[A][i] = Chunk(swp1, B, B \o <<"-">> \o swp3, None, TRUE)

\* C5: with the line "A:swp1" -- "B:swp3" in the expected-topology file, A and
\* B known nodes and A's dump reporting swp1 -> B, B-swp3, the final graph
\* holds the link A:swp1 - B:swp3 as confirmed (is_missing = "no").
C5_Scenario1Confirmed ==
    ( /\ topologyJs.written
      /\ JoinedLine(A, swp1, B, swp3) \in Range(dotFile.lines)
      /\ Range(locals.device_info.keys) = {A, B}
      /\ Scenario1Dump )
    => \E k \in FinalIdx :
          /\ SamePair(Tuple(FinalLinks[k]), <<A, swp1, B, swp3>>)
          /\ FinalLinks[k].is_missing = "no"

Documented(t) == t \in locals.defined_links \/ Swap(t) \in locals.defined_links

\* C6: a final link that came from a dump adjacency is failed exactly when
\* neither its tuple nor the swapped tuple is an expected link, and confirmed
\* otherwise; it is never missing.
C6_DiscoveredClassification ==
    topologyJs.written =>
        \A k \in FinalIdx :
            LET t == Tuple(FinalLinks[k])
            IN  /\ t \in locals.all_lldp_links_found <=> FinalLinks[k].is_missing # "yes"
                /\ t \in locals.all_lldp_links_found =>
                      FinalLinks[k].is_missing = (IF Documented(t) THEN "no" ELSE "fail")

C6_Witness ==
    /\ topologyJs.written
    /\ \E k \in FinalIdx : FinalLinks[k].is_missing = "fail"
    /\ \E k \in FinalIdx :
          /\ FinalLinks[k].is_missing = "no"
          /\ Tuple(FinalLinks[k]) \notin locals.defined_links

KnownEnds(t) == t[1] \in DOMAIN locals.device_nodes /\ t[3] \in DOMAIN locals.device_nodes

Undiscovered(t) ==
    t \notin locals.all_lldp_links_found /\ Swap(t) \notin locals.all_lldp_links_found

FinalOfPair(t) == {k \in FinalIdx : SamePair(Tuple(FinalLinks[k]), t)}

\* C7: the final graph holds a missing link for an undirected pair exactly
\* when the pair is expected, undiscovered in both orientations and both its
\* devices are known nodes; every expected link with known ends is in the
\* final graph once, as confirmed or as missing.
C7_MissingInjection ==
    topologyJs.written =>
        /\ \A k \in FinalIdx :
              FinalLinks[k].is_missing = "yes" =>
                 /\ Documented(Tuple(FinalLinks[k]))
                 /\ Undiscovered(Tuple(FinalLinks[k]))
                 /\ KnownEnds(Tuple(FinalLinks[k]))
        /\ \A t \in locals.defined_links :
              /\ (Undiscovered(t) /\ KnownEnds(t)) =>
                    \E k \in FinalOfPair(t) : FinalLinks[k].is_missing = "yes"
              /\ KnownEnds(t) =>
                    /\ Cardinality(FinalOfPair(t)) = 1
                    /\ \A k \in FinalOfPair(t) : FinalLinks[k].is_missing \in {"no", "yes"}

C7_Witness ==
    /\ topologyJs.written
    /\ \E k \in FinalIdx : FinalLinks[k].is_missing = "yes"
    /\ \E t \in locals.defined_links : ~Undiscovered(t)
    /\ Cardinality(locals.defined_links) = 2

NodeOf(name, id) ==
    \E n \in 1..Len(FinalNodes) : FinalNodes[n].name = name /\ FinalNodes[n].id = id

\* C10: every final link names final nodes at both ends, and its source and
\* target ids are the final ids of those nodes; the id rewrite never fails.
C10_LinksReferToFinalNodes ==
    /\ locals.ran => locals.error = "none"
    /\ topologyJs.written =>
          \A k \in FinalIdx :
              /\ NodeOf(FinalLinks[k].srcDevice, FinalLinks[k].source)
              /\ NodeOf(FinalLinks[k].tgtDevice, FinalLinks[k].target)

\* a final link whose endpoint ids changed in the compaction
C10_Witness ==
    /\ topologyJs.written
    /\ \E k \in FinalIdx, c \in 1..Len(locals.candidates) :
          /\ locals.candidates[c].id = FinalLinks[k].id
          /\ locals.candidates[c].source # FinalLinks[k].source

-----------------------------------------------------------------------------
(* Claims about the classifiers, checked under SpecClassifier *)

Classified == DOMAIN current_lldp_stats

ConnectionsOf(d) ==
    [i \in 1..Len(current_lldp_stats[d].connections) |->
        current_lldp_stats[d].connections[i].c]

\* E of an interface: the expectation loaded for it, if any
HasExpectation(d, interface) ==
    /\ d \in DOMAIN topology_expectations
    /\ InDict(interface, topology_expectations[d])

ExpectationOf(d, interface) == topology_expectations[d].val[interface]

\* D of an interface: the first adjacency the dump shows on it, if any
DiscoveredOn(d) == analyzer_parse_lldp_output(dumpFiles[d])

\* the status the decision table gives, first matching rule
TableState(d, interface) ==
    LET hasE == HasExpectation(d, interface)
        hasD == HasNeighbor(DiscoveredOn(d), interface)
        D == FirstNeighbor(DiscoveredOn(d), interface)
        E == ExpectationOf(d, interface)
    IN  IF hasE /\ ~hasD THEN "missing"
        ELSE IF hasE /\ D.sys_name = E.neighbor_device /\ D.port_id = E.neighbor_interface
        THEN "established"
        ELSE IF hasE THEN "mismatch"
        ELSE IF hasD THEN "unexpected"
        ELSE "unknown"

\* C3: every classification analyze_device_connections produces for a device
\* carries the status the decision table gives its interface (E and no D:
\* missing; E and D equal in device and port: established; E and another D:
\* mismatch; no E and D: unexpected), every interface with an expectation or a
\* discovered neighbor is classified, and no status is outside the five states.
C3_DecisionTable ==
    \A d \in Classified :
        /\ \A i \in 1..Len(ConnectionsOf(d)) :
              /\ ConnectionsOf(d)[i].source_device = d
              /\ ConnectionsOf(d)[i].state = TableState(d, ConnectionsOf(d)[i].source_interface)
              /\ ConnectionsOf(d)[i].state
                    \in {"established", "missing", "mismatch", "unexpected", "unknown"}
        /\ \A interface \in {swp1, swp3} :
              (HasExpectation(d, interface) \/ HasNeighbor(DiscoveredOn(d), interface))
              => \E i \in 1..Len(ConnectionsOf(d)) :
                    ConnectionsOf(d)[i].source_interface = interface

\* a device classified with a mismatch on one port and an unexpected neighbor
\* on another, while its peer misses its expected neighbor
C3_Witness ==
    /\ Classified = {A, B}
    /\ \E i \in 1..Len(ConnectionsOf(A)) : ConnectionsOf(A)[i].state = "mismatch"
    /\ \E i \in 1..Len(ConnectionsOf(A)) : ConnectionsOf(A)[i].state = "unexpected"
    /\ \E i \in 1..Len(ConnectionsOf(B)) : ConnectionsOf(B)[i].state = "missing"

\* Scenario 1 and nothing else: A's dump has the one section swp1 -> B, B-swp3
\* and the expected topology the one line "A:swp1" -- "B:swp3"
Scenario1Only ==
    /\ A \in DOMAIN dumpFiles
    /\ dumpFiles[A] = DumpOf(<<Chunk(swp1, B, B \o <<"-">> \o swp3, None, TRUE)>>)
    /\ dotFile = File(<<JoinedLine(A, swp1, B, swp3)>>)

\* C4: in Scenario 1 the classification of A:swp1 is Established, in the
\* classifier's statistics and (as Pass) in the per-port report: the reported
\* port B-swp3 is compared to the expected swp3 without the device prefix.
C4_Scenario1Established ==
    Scenario1Only =>
        /\ A \in Classified =>
              \E i \in 1..Len(ConnectionsOf(A)) :
                 /\ ConnectionsOf(A)[i].source_interface = swp1
                 /\ ConnectionsOf(A)[i].state = "established"
        /\ (results.ran /\ results.error = "none") =>
              \E i \in 1..Len(results.rows[A]) :
                 /\ results.rows[A][i].Port = swp1
                 /\ results.rows[A][i].Status = "Pass"

RowHasExpectation(row) == row.ExpNbr # <<"None">>
RowHasDiscovery(row) == row.ActNbr # <<"None">>
RowMatches(row) == row.ActNbr = row.ExpNbr /\ row.ActNbrPort = row.ExpNbrPort

ReportRows ==
    IF results.ran /\ results.error = "none"
    THEN UNION {Range(results.rows[d]) : d \in DOMAIN results.rows}
    ELSE {}

\* C8: in the report of check_connections a port with an expectation and no
\* discovery has the Missing status, the NoInfo status goes only to a port
\* with neither, and a mismatching neighbor differs in status from an
\* unexpected one.
C8_ReportStatuses ==
    /\ \A row \in ReportRows :
          /\ (RowHasExpectation(row) /\ ~RowHasDiscovery(row)) => row.Status = "Missing"
          /\ row.Status = "No-Info" => (~RowHasExpectation(row) /\ ~RowHasDiscovery(row))
    /\ \A r1, r2 \in ReportRows :
          ( /\ RowHasExpectation(r1) /\ RowHasDiscovery(r1) /\ ~RowMatches(r1)
            /\ ~RowHasExpectation(r2) /\ RowHasDiscovery(r2) )
          => r1.Status # r2.Status

\* N for the classifier: the expected links it loaded with an end on d
AnalyzerExpectedLinks(d) ==
    LET connections == IF dotFile.exists
                       THEN find_connections(file_content(dotFile.lines), 1) ELSE <<>>
    IN  {i \in 1..Len(connections) : connections[i][1] = d \/ connections[i][3] = d}

\* U for the classifier: the interfaces of d with a neighbor and no expectation
AnalyzerUnexpectedInterfaces(d) ==
    {DiscoveredOn(d)[i].interface : i \in 1..Len(DiscoveredOn(d))}
    \ ({interface \in {swp1, swp3} : HasExpectation(d, interface)} \cup {<<"eth0">>})

\* N for the report: the expected-link lines with an end on d
ReportExpectedLinks(d) ==
    {i \in 1..Len(dotFile.lines) :
        /\ "--" \in Range(dotFile.lines[i])
        /\ (line_ends(dotFile.lines[i])[1] = d \/ line_ends(dotFile.lines[i])[3] = d)}

ReportExpectedInterfaces(d) ==
    {IF line_ends(dotFile.lines[i])[1] = d THEN line_ends(dotFile.lines[i])[2]
     ELSE line_ends(dotFile.lines[i])[4] : i \in ReportExpectedLinks(d)}

\* U for the report
ReportUnexpectedInterfaces(d) ==
    LET neighbors == validate_parse_lldp_output(dumpFiles[d])
    IN  {neighbors[i].interface : i \in 1..Len(neighbors)}
        \ (ReportExpectedInterfaces(d) \cup {<<"eth0">>})

\* C9: a classified device gets N + U port classifications, N its expected
\* links and U its interfaces with a discovered neighbor and no expectation,
\* in the classifier's statistics and in the per-port report alike.
C9_ClassificationCoverage ==
    /\ \A d \in Classified :
          current_lldp_stats[d].total_connections
             = Cardinality(AnalyzerExpectedLinks(d))
               + Cardinality(AnalyzerUnexpectedInterfaces(d))
    /\ (results.ran /\ results.error = "none") =>
          \A d \in DOMAIN results.rows :
             Len(results.rows[d])
                = Cardinality(ReportExpectedLinks(d))
                  + Cardinality(ReportUnexpectedInterfaces(d))

-----------------------------------------------------------------------------
(* Claims about the node list, checked under SpecInventory *)

FinalNames == {FinalNodes[n].name : n \in 1..Len(FinalNodes)}

LinkEnds == {FinalLinks[k].srcDevice : k \in FinalIdx} \cup {FinalLinks[k].tgtDevice : k \in FinalIdx}

\* the devices of the asset table and of the host list
InventoryNames == Range(parse_assets_file(assetsFile).keys) \cup parse_hosts_file(hostsFile)

\* the devices that got a node during the run
SeededNames == DOMAIN locals.device_nodes

\* C11 as stated: every node of the final node list is an endpoint of at
\* least one link of the final link list.
C11_EveryNodeHasLink ==
    topologyJs.written => FinalNames \subseteq LinkEnds

\* C11 amended: every node of the final node list is an inventory device or
\* an endpoint of at least one link of the final link list.
C11_EveryNodeInventoryOrLinked ==
    topologyJs.written => FinalNames \subseteq (InventoryNames \cup LinkEnds)

\* a run that dropped a node and kept a node without links
C11_Witness ==
    /\ topologyJs.written
    /\ SeededNames \ FinalNames # {}
    /\ FinalNames \ LinkEnds # {}

\* C12: final node names are pairwise distinct, the nodes are in ascending
\* name order and the node at position i (from 0) has id i.
C12_FinalNodeIds ==
    topologyJs.written =>
        /\ \A i, j \in 1..Len(FinalNodes) :
              i # j => FinalNodes[i].name # FinalNodes[j].name
        /\ \A i \in 1..(Len(FinalNodes) - 1) :
              StrLess(FinalNodes[i].name, FinalNodes[i + 1].name)
        /\ \A i \in 1..Len(FinalNodes) : FinalNodes[i].id = i - 1

\* a final node whose id is not the one it was seeded with
C12_Witness ==
    /\ topologyJs.written
    /\ Len(FinalNodes) >= 2
    /\ \E i \in 1..Len(FinalNodes) :
          locals.device_nodes[FinalNodes[i].name] # FinalNodes[i].id

IsEth0(port) == Lower(port) = eth0

\* C13: no link of the final graph has eth0 as its source or target port, and
\* no per-port classification has eth0 as its local port or as its actual
\* neighbor port.
C13_Eth0Excluded ==
    /\ topologyJs.written =>
          \A k \in FinalIdx :
              ~IsEth0(FinalLinks[k].srcIfName) /\ ~IsEth0(FinalLinks[k].tgtIfName)
    /\ \A d \in Classified :
          \A i \in 1..Len(ConnectionsOf(d)) :
              /\ ~IsEth0(ConnectionsOf(d)[i].source_interface)
              /\ ~IsEth0(ConnectionsOf(d)[i].neighbor_interface)

\* the reconciler's three loaders on absent files
ReconcilerToleratesAbsence ==
    (locals.ran /\ (~assetsFile.exists \/ ~hostsFile.exists \/ ~dotFile.exists))
    => /\ locals.error = "none"
       /\ topologyJs.written
       /\ ~assetsFile.exists => Range(locals.device_info.keys) = parse_hosts_file(hostsFile)
       /\ ~dotFile.exists => locals.defined_links = {}

\* the classifier of lldp_analyzer.py on an absent expected-topology file
AnalyzerToleratesAbsence ==
    ~dotFile.exists =>
        \A d \in Classified :
            \A i \in 1..Len(ConnectionsOf(d)) : ConnectionsOf(d)[i].state = "unexpected"

\* the report of lldp-validate.py on an absent expected-topology file
ReportToleratesAbsence ==
    (results.ran /\ ~dotFile.exists)
    => /\ results.error = "none"
       /\ \A row \in ReportRows : ~RowHasExpectation(row)

\* C14: an absent asset file, host-list file or expected-topology file is
\* never fatal: in the reconciler and in the per-port classifiers the file
\* contributes an empty collection and the run completes and writes its
\* output; without the expected-topology file every discovered interface is
\* classified as having no expectation.
C14_AbsentFileNotFatal ==
    /\ ReconcilerToleratesAbsence
    /\ AnalyzerToleratesAbsence
    /\ ReportToleratesAbsence

\* C15: when the dump directory is absent the topology run ends with a
\* non-zero exit status and has written nothing: no graph artifact and no
\* other output file is created or modified.
C15_NoDirectoryNoOutput ==
    (exitStatus.exited /\ ~dumpDirExists)
    => /\ exitStatus.status # 0
       /\ ~topologyJs.written
       /\ ~mainHtml.written
       /\ mainHtml = InstalledHtml

\* the complete adjacencies of a dump outside the management interface
Adjacencies(d) ==
    {<<d, c.iface, c.sysName, IF c.portId # None THEN c.portId ELSE c.portDescr>> :
        c \in {x \in Range(dumpFiles[d]) :
                  /\ x.iface # None /\ x.sysName # None
                  /\ (x.portId # None \/ x.portDescr # None)
                  /\ ~IsEth0(x.iface)
                  /\ ~IsEth0(IF x.portId # None THEN x.portId ELSE x.portDescr)}}

\* C16: with no inventory the run still writes a graph from the adjacency
\* data: every device with a dump and every neighbor named in a complete
\* adjacency outside eth0 is a final node, and every such adjacency is
\* represented by a final link.
C16_GraphWithoutInventory ==
    (topologyJs.written /\ ~assetsFile.exists /\ ~hostsFile.exists)
    => \A d \in DOMAIN dumpFiles :
          /\ d \in FinalNames
          /\ \A t \in Adjacencies(d) :
                /\ t[3] \in FinalNames
                /\ \E k \in FinalIdx : SamePair(Tuple(FinalLinks[k]), t)

-----------------------------------------------------------------------------
(* Claims about the extractors and the normalizer *)

\* the record the extraction rule gives one delimiter-separated section
SectionRecord(c) ==
    LET port == IF c.cumulus THEN c.portId ELSE c.portDescr
    IN  IF c.iface # None /\ port # None
        THEN <<Neighbor(c.iface, IF c.sysName = None THEN <<"Unknown">> ELSE c.sysName, port)>>
        ELSE <<>>

RECURSIVE SectionRecords(_)
SectionRecords(data) ==
    IF data = <<>> THEN <<>> ELSE SectionRecord(Head(data)) \o SectionRecords(Tail(data))

\* C17: for every dump the extractor of each classifier returns, in section
\* order, one adjacency record for each section with an Interface and a port
\* identifier, with neighbor "Unknown" when the section has no SysName, and no
\* record for the other sections, the first and the last section included.
C17_NeighborExtraction ==
    /\ \A d \in Classified :
          analyzer_parse_lldp_output(dumpFiles[d]) = SectionRecords(dumpFiles[d])
    /\ (results.ran /\ results.error = "none") =>
          \A d \in DOMAIN dumpFiles :
             validate_parse_lldp_output(dumpFiles[d]) = SectionRecords(dumpFiles[d])

\* the known names d such that iface_name starts with d and the separator
MatchingNames(iface_name, known) ==
    {d \in known : Len(iface_name) > Len(d)
                   /\ SubSeq(iface_name, 1, Len(d)) = d /\ iface_name[Len(d) + 1] = "-"}

LongestName(names) == CHOOSE d \in names : \A e \in names : Len(e) <= Len(d)

\* C18: normalize_interface_name returns iface without the prefix "d-" for
\* the longest known name d that prefixes it with the separator, and iface
\* unchanged when no known name does, in whatever order the names are visited.
C18_LongestPrefixStripped ==
    normalizer.called =>
        LET names == MatchingNames(normalizer.iface_name, normalizer.known_device_names)
        IN  normalizer.result =
               IF names = {} THEN normalizer.iface_name
               ELSE SubSeq(normalizer.iface_name, Len(LongestName(names)) + 2,
                           Len(normalizer.iface_name))

\* a call where two known names prefix the port
C18_Witness ==
    /\ normalizer.called
    /\ Cardinality(MatchingNames(normalizer.iface_name, normalizer.known_device_names)) = 2
    /\ normalizer.result = swp3

-----------------------------------------------------------------------------
(* Claims about the seeding of nodes, checked under SpecInventory *)

NodesNamed(d) == {n \in 1..Len(FinalNodes) : FinalNodes[n].name = d}

\* every device name of a snapshot
SnapshotNames == InventoryNames \cup SeededNames \cup DumpDevices \cup {Mgmt}

HiddenName(d) == \E i \in 1..Len(d) : d[i] = "OOB-MGMT"

\* C19 as stated: a device is a node of the final graph exactly when it is in
\* the inventory or is an endpoint of a surviving link, and every inventory
\* device yields exactly one node.
C19_FinalNodeSet ==
    topologyJs.written =>
        /\ FinalNames = InventoryNames \cup LinkEnds
        /\ \A d \in InventoryNames : Cardinality(NodesNamed(d)) = 1

\* C19 amended: a device whose name does not contain OOB-MGMT is a node of the
\* final graph exactly when it is in the inventory or is an endpoint of a
\* surviving link; every such inventory device yields exactly one node, and
\* such a node outside the inventory and without links is dropped.
C19_FinalNodeSetButHidden ==
    topologyJs.written =>
        \A d \in SnapshotNames :
            ~HiddenName(d) =>
                /\ d \in FinalNames <=> (d \in InventoryNames \/ d \in LinkEnds)
                /\ d \in InventoryNames => Cardinality(NodesNamed(d)) = 1

\* an inventory device without links kept, a device known by its dump alone
\* dropped
C19_Witness ==
    /\ topologyJs.written
    /\ H \in FinalNames \ LinkEnds
    /\ A \in SeededNames \ (FinalNames \cup InventoryNames)

HostOnly == parse_hosts_file(hostsFile) \ Range(parse_assets_file(assetsFile).keys)

Placeholder(node) ==
    /\ node.primaryIP = <<"N/A">>
    /\ node.model = <<"N/A">>
    /\ node.serial_number = <<"N/A">>
    /\ node.version = <<"N/A">>

\* C20 as stated: a host-only device is in the final node list with every
\* enrichment field "N/A" and an icon other than "switch".
C20_HostOnlyNode ==
    topologyJs.written =>
        \A h \in HostOnly :
            \E n \in NodesNamed(h) :
                Placeholder(FinalNodes[n]) /\ FinalNodes[n].icon # "switch"

\* C20 amended: a host-only device whose name does not contain OOB-MGMT is in
\* the final node list once, with every enrichment field "N/A" and with the
\* icon of the category its name gives it: "switch" for a name with a switch
\* pattern (leaf), "server" for a name without any pattern (H, B), and never
\* "unknown".
C20_HostOnlyNodeByName ==
    topologyJs.written =>
        \A h \in HostOnly :
            ~HiddenName(h) =>
                /\ Cardinality(NodesNamed(h)) = 1
                /\ \A n \in NodesNamed(h) :
                      /\ Placeholder(FinalNodes[n])
                      /\ FinalNodes[n].icon = (IF h = Leaf THEN "switch" ELSE "server")

\* the host H, without dump, in the graph
C20_Witness ==
    /\ topologyJs.written
    /\ H \in HostOnly
    /\ H \notin DOMAIN dumpFiles
    /\ \E n \in NodesNamed(H) : FinalNodes[n].icon = "server"

-----------------------------------------------------------------------------
(* Claims about the icons and the categories, checked under SpecInventory *)

AssetNames == Range(parse_assets_file(assetsFile).keys)

HostNames == parse_hosts_file(hostsFile)

HasDump(d) == d \in DOMAIN dumpFiles

\* the final nodes of inventory devices
InventoryNodes == {n \in 1..Len(FinalNodes) : FinalNodes[n].name \in InventoryNames}

CategoryIcon(d) == categorize(topology_script(topologyType), d)[2]

\* C21 as stated: an inventory node has the icon "unknown" exactly when its
\* device has no dump file and is not in the host list; a device of the host
\* list keeps its category icon, with or without a dump, in the asset table or
\* not.
C21_UnknownIcon ==
    topologyJs.written =>
        \A n \in InventoryNodes :
            LET d == FinalNodes[n].name
            IN  /\ FinalNodes[n].icon = "unknown" <=> (~HasDump(d) /\ d \notin HostNames)
                /\ d \in HostNames => FinalNodes[n].icon = CategoryIcon(d)

\* C21 amended: an inventory node whose name does not contain OOB-MGMT has the
\* icon "unknown" exactly when its device has no dump file and is in the asset
\* table, and its category icon otherwise; a device that is in the host list
\* and not in the asset table keeps its category icon without a dump.
C21_UnknownIconAssetTable ==
    topologyJs.written =>
        \A n \in InventoryNodes :
            LET d == FinalNodes[n].name
            IN  ~HiddenName(d) =>
                    FinalNodes[n].icon =
                        (IF ~HasDump(d) /\ d \in AssetNames THEN "unknown"
                         ELSE CategoryIcon(d))

\* a run without B's dump, B in the asset table and the host list, H in the
\* host list alone
C21_Witness ==
    /\ topologyJs.written
    /\ B \in AssetNames \cap HostNames
    /\ ~HasDump(B)
    /\ \E n \in NodesNamed(B) : FinalNodes[n].icon = "unknown"
    /\ \E n \in NodesNamed(H) : FinalNodes[n].icon = "server"
    /\ HasDump(A)
    /\ \E n \in NodesNamed(A) : FinalNodes[n].icon = "server"

-----------------------------------------------------------------------------
(* Claims about the categorization, checked under SpecCategorizer *)

\* the number of characters of a pattern
PatternLength(pattern) ==
    CASE pattern = "leaf" -> 4
      [] pattern = "spine" -> 5
      [] pattern = "border" -> 6
      [] pattern = "switch" -> 6
      [] pattern = "oobswitch" -> 9
      [] pattern = "superspine" -> 10

\* the patterns of the if/elif chain of generate_topology.py, in its order
MinimalCategories ==
    << [pattern |-> "border", layer |-> 1, icon |-> "switch"],
       [pattern |-> "superspine", layer |-> 2, icon |-> "switch"],
       [pattern |-> "spine", layer |-> 3, icon |-> "switch"],
       [pattern |-> "leaf", layer |-> 4, icon |-> "switch"],
       [pattern |-> "oobswitch", layer |-> 5, icon |-> "switch"] >>

\* the category patterns a categorization is configured with, in their order
ConfiguredCategories ==
    IF categorizer.variant = "full" THEN categorizer.config.device_categories
    ELSE MinimalCategories

MatchingCategories ==
    {i \in 1..Len(ConfiguredCategories) :
        Contains(Lower(categorizer.device_name), ConfiguredCategories[i].pattern)}

\* the special rules of type even_odd_suffix whose pattern the name contains
MatchingRules ==
    IF categorizer.variant = "full"
    THEN {i \in 1..Len(categorizer.config.special_rules) :
            /\ categorizer.config.special_rules[i].type = "even_odd_suffix"
            /\ Contains(categorizer.device_name, categorizer.config.special_rules[i].pattern)}
    ELSE {}

SuffixIsInteger == IsIntToken(last_token(categorizer.device_name))

SpecialApplies == MatchingRules # {} /\ SuffixIsInteger

Least(S) == CHOOSE i \in S : \A j \in S : i <= j

CategoryIs(c) == categorizer.layer = c.layer /\ categorizer.icon = c.icon

\* C22 as stated: a name with several configured category patterns gets the
\* layer and icon of the longest matching pattern, in whatever order the
\* patterns are configured; a name without any gets the default category.
C22_LongestPatternWins ==
    (categorizer.called /\ ~SpecialApplies) =>
        IF MatchingCategories = {} THEN categorizer.layer = 9 /\ categorizer.icon = "server"
        ELSE \E i \in MatchingCategories :
                /\ \A j \in MatchingCategories :
                      PatternLength(ConfiguredCategories[j].pattern)
                         <= PatternLength(ConfiguredCategories[i].pattern)
                /\ CategoryIs(ConfiguredCategories[i])

\* C22 amended: when no special rule applies, a name whose lower-case form has
\* several configured category patterns gets the layer and icon of the first
\* matching pattern in the order of the configuration (in generate_topology.py
\* the fixed order border, superspine, spine, leaf, oobswitch); a name
\* without any gets the default category.
C22_FirstPatternWins ==
    (categorizer.called /\ ~SpecialApplies) =>
        IF MatchingCategories = {} THEN categorizer.layer = 9 /\ categorizer.icon = "server"
        ELSE CategoryIs(ConfiguredCategories[Least(MatchingCategories)])

\* superspine-1 under a configuration that lists spine before superspine
C22_Witness ==
    /\ categorizer.called
    /\ categorizer.variant = "full"
    /\ ~SpecialApplies
    /\ Cardinality(MatchingCategories) = 2
    /\ categorizer.device_name = <<"superspine", "-", "1">>
    /\ categorizer.layer = 3

\* what the regular patterns and the default give the name
RegularCategory ==
    IF MatchingCategories = {} THEN [layer |-> 9, icon |-> "server"]
    ELSE ConfiguredCategories[Least(MatchingCategories)]

\* the special rules whose pattern the name contains
RulesNamingDevice ==
    {i \in 1..Len(categorizer.config.special_rules) :
        Contains(categorizer.device_name, categorizer.config.special_rules[i].pattern)}

\* what the first matching even_odd_suffix rule gives the integer suffix
SuffixCategory ==
    LET rule == categorizer.config.special_rules[Least(MatchingRules)]
        n == IntOfToken(last_token(categorizer.device_name))
    IN  [layer |-> IF n % 2 = 0 THEN rule.even_layer ELSE rule.odd_layer, icon |-> rule.icon]

\* the first two clauses of C25: the even/odd layer for an integer suffix,
\* before every regular pattern; the regular patterns and the default otherwise
SuffixRule ==
    IF SpecialApplies THEN CategoryIs(SuffixCategory) ELSE CategoryIs(RegularCategory)

\* C25 as stated: a name with the pattern of an even_odd_suffix rule and an
\* integer last token n gets (even_layer, icon) for even n and (odd_layer,
\* icon) for odd n, before every regular pattern; with a last token that is
\* not an integer it gets the category of the regular patterns and the
\* default, and a later special rule matching the name is still applied.
C25_SpecialRules ==
    (categorizer.called /\ categorizer.variant = "full") =>
        /\ SuffixRule
        /\ (MatchingRules # {} /\ ~SuffixIsInteger) =>
              \A i \in RulesNamingDevice : i <= categorizer.rules_checked

\* C25 amended: the same, but with a last token that is not an integer the
\* loop over the special rules ends at the first matching even_odd_suffix
\* rule: no later special rule is applied.
C25_SpecialRulesEndAtFailure ==
    (categorizer.called /\ categorizer.variant = "full") =>
        /\ SuffixRule
        /\ (MatchingRules # {} /\ ~SuffixIsInteger) =>
              categorizer.rules_checked = Least(MatchingRules)

\* leaf-x under two special rules that name it: the loop left at the first
C25_Witness ==
    /\ categorizer.called
    /\ categorizer.variant = "full"
    /\ categorizer.device_name = <<"leaf", "-", "x">>
    /\ Cardinality(RulesNamingDevice) = 2
    /\ categorizer.rules_checked = 1
    /\ categorizer.layer = 4

-----------------------------------------------------------------------------
(* Claims about the loaders of the expected topology, checked under SpecLoaders *)

\* the line without its bracketed annotation
WithoutAnnotation(line) ==
    LET i == IndexFrom(line, "[", 1)
    IN  IF i = 0 THEN line ELSE RStrip(SubSeq(line, 1, i - 1))

\* topology.dot with every annotation taken out
BareDotFile ==
    [exists |-> dotFile.exists,
     lines |-> [i \in 1..Len(dotFile.lines) |-> WithoutAnnotation(dotFile.lines[i])]]

Annotated == \E i \in 1..Len(dotFile.lines) : "[" \in Range(dotFile.lines[i])

ReconcilerIgnoresAnnotations ==
    locals.ran => locals.defined_links = parse_topology_dot_file(BareDotFile)

AnalyzerIgnoresAnnotations ==
    topology_expectations = load_topology_expectations(BareDotFile)

ReportIgnoresAnnotations ==
    results.ran =>
        [error |-> results.error, rows |-> results.rows]
            = check_connections(BareDotFile, dumpFiles)

\* C23: an expected-topology line with a bracketed annotation after the link,
\* with or without a quoted value in it, gives each loader (the reconciler's
\* parse_topology_dot_file, check_connections of the report,
\* load_topology_expectations of the classifier) the expected links of the
\* same line without the annotation.
C23_AnnotationsIgnored ==
    /\ ReconcilerIgnoresAnnotations
    /\ AnalyzerIgnoresAnnotations
    /\ ReportIgnoresAnnotations

-----------------------------------------------------------------------------
(* Claims about the link list, checked under SpecTopo *)

Candidates == locals.candidates

\* the candidates a final link can be: same id, tuple and discovery state
CandidatesOf(k) ==
    {i \in 1..Len(Candidates) :
        /\ Candidates[i].id = FinalLinks[k].id
        /\ Tuple(Candidates[i]) = Tuple(FinalLinks[k])
        /\ Candidates[i].is_missing = FinalLinks[k].is_missing}

\* the first candidate of the undirected pair of t
FirstOfPair(t) ==
    CHOOSE i \in 1..Len(Candidates) :
        /\ SamePair(Tuple(Candidates[i]), t)
        /\ \A j \in 1..(i - 1) : ~SamePair(Tuple(Candidates[j]), t)

\* C24: the final link list is a subsequence of the candidate list (the
\* discovered links in reading order, then the injected missing links), and
\* the link that survives for an undirected pair is the earliest candidate of
\* the pair, with its orientation and port labels unchanged.
C24_FirstOccurrenceKept ==
    (topologyJs.written /\ locals.ran) =>
        /\ \A k \in FinalIdx : CandidatesOf(k) = {FirstOfPair(Tuple(FinalLinks[k]))}
        /\ \A k1, k2 \in FinalIdx :
              k1 < k2 => FirstOfPair(Tuple(FinalLinks[k1])) < FirstOfPair(Tuple(FinalLinks[k2]))
        /\ \A i \in 1..Len(Candidates) :
              \E k \in FinalIdx : SamePair(Tuple(FinalLinks[k]), Tuple(Candidates[i]))
        /\ \A i \in 1..Len(Candidates) :
              IF Candidates[i].is_missing = "yes"
              THEN \A j \in (i + 1)..Len(Candidates) : Candidates[j].is_missing = "yes"
              ELSE Tuple(Candidates[i]) \in locals.all_lldp_links_found

\* a run that read B's report of a link first and dropped A's report of it
C24_Witness ==
    /\ topologyJs.written
    /\ locals.ran
    /\ \E i, j \in 1..Len(Candidates) :
          /\ i < j
          /\ Candidates[i].is_missing # "yes"
          /\ Tuple(Candidates[j]) = Swap(Tuple(Candidates[i]))
          /\ Candidates[i].srcDevice = B
    /\ Len(FinalLinks) < Len(Candidates)
    /\ Len(FinalLinks) >= 1

\* the undirected pair of a link with its discovery state
PairState(l) == <<{Tuple(l), Swap(Tuple(l))}, l.is_missing>>

NodeNamesOf(topology) == {topology.nodes[n].name : n \in 1..Len(topology.nodes)}

PairStatesOf(topology) == {PairState(topology.links[k]) : k \in 1..Len(topology.links)}

\* C26: two runs on the same input files, whatever the order in which the
\* dump files are listed and the expected links iterated, write graphs with
\* the same set of node names and the same set of undirected link pairs with
\* their discovery states.
C26_OrderIndependentContent ==
    [][(topologyJs.written /\ topologyJs'.written) =>
          /\ NodeNamesOf(topologyJs') = NodeNamesOf(topologyJs)
          /\ PairStatesOf(topologyJs') = PairStatesOf(topologyJs)]_vars

\* a run that listed B's dump first: the link both ends report is in the
\* graph in B's orientation, and its line in the file names A first
C26_Witness ==
    /\ topologyJs.written
    /\ \E i, j \in 1..Len(Candidates) : i < j /\ OppositeReports(i, j)
    /\ \E k \in FinalIdx :
          /\ FinalLinks[k].srcDevice = B
          /\ FinalLinks[k].is_missing = "no"
          /\ Tuple(FinalLinks[k]) \notin locals.defined_links

\* C27: in the graph artifact the link ids are pairwise distinct and strictly
\* increasing in list order, every discovered link has a smaller id than
\* every injected missing link, and every id is below the number of candidate
\* links made before the deduplication: the ids are not renumbered after it.
C27_FinalLinkIds ==
    (topologyJs.written /\ locals.ran) =>
        /\ \A k1, k2 \in FinalIdx : k1 < k2 => FinalLinks[k1].id < FinalLinks[k2].id
        /\ \A k1, k2 \in FinalIdx :
              (Discovered(FinalLinks[k1]) /\ ~Discovered(FinalLinks[k2]))
              => FinalLinks[k1].id < FinalLinks[k2].id
        /\ \A k \in FinalIdx : FinalLinks[k].id \in 0..(Len(Candidates) - 1)
        /\ \A k \in FinalIdx : Candidates[FinalLinks[k].id + 1].id = FinalLinks[k].id

\* a graph with a discovered link and a missing one whose id is not its
\* position: the id between them went with a dropped duplicate
C27_Witness ==
    /\ topologyJs.written
    /\ locals.ran
    /\ Len(FinalLinks) = 2
    /\ Discovered(FinalLinks[1])
    /\ FinalLinks[2].is_missing = "yes"
    /\ FinalLinks[2].id = 2

-----------------------------------------------------------------------------
(* Claims about the run of lldp-validate.py, checked under SpecValidateRun *)

\* the dump files the run listed that are no longer there
DeletedDumps == Range(validateRun.files_in_order) \ DOMAIN dumpFiles

\* C28: a dump file is deleted only after the per-port report has been
\* written completely and the topology script has run and exited with status
\* 0; when the report write or the topology script fails no dump file is
\* deleted.
C28_DeleteAfterReportAndTopology ==
    /\ DeletedDumps # {} =>
          /\ validateRun.report = "complete"
          /\ exitStatus.exited /\ exitStatus.status = 0
          /\ results.ran /\ results.error = "none"
    /\ validateRun.pc = "aborted" => DeletedDumps = {}

\* a run at its end with both dump files deleted
C28_Witness ==
    /\ validateRun.pc = "done"
    /\ DeletedDumps = {A, B}
    /\ topologyJs.written

-----------------------------------------------------------------------------
(* Claims about the statistics of the classifier, checked under SpecClassifier *)

HealthOf(state) ==
    CASE state = "established" -> "excellent"
      [] state = "unexpected" -> "warning"
      [] state \in {"missing", "mismatch"} -> "critical"
      [] OTHER -> "none"

\* C29: after update_lldp_stats every device of current_lldp_stats has
\* total_connections = established + missing + mismatched + unexpected, equal
\* to the length of its connections list; no connection is in the state
\* unknown, and the health of a connection is excellent for established,
\* warning for unexpected, critical for missing and for mismatch.
C29_StatisticsAddUp ==
    \A d \in Classified :
        LET s == current_lldp_stats[d]
        IN  /\ s.total_connections
                  = s.established_connections + s.missing_connections
                    + s.mismatched_connections + s.unexpected_connections
            /\ s.total_connections = Len(s.connections)
            /\ \A i \in 1..Len(s.connections) :
                  /\ s.connections[i].c.state
                        \in {"established", "missing", "mismatch", "unexpected"}
                  /\ s.connections[i].health = HealthOf(s.connections[i].c.state)

\* A with a mismatched port and an unexpected one, B with a missing port
C29_Witness ==
    /\ Classified = {A, B}
    /\ current_lldp_stats[A].total_connections = 2
    /\ current_lldp_stats[A].unexpected_connections = 1
    /\ current_lldp_stats[A].mismatched_connections = 1
    /\ current_lldp_stats[B].missing_connections = 1
    /\ current_lldp_stats[B].total_connections = 1

-----------------------------------------------------------------------------
(* Claims about the two topology scripts, checked under SpecBothScripts *)

\* the neighbors the sections of the dumps name
NamedNeighbors ==
    UNION {{dumpFiles[d][i].sysName : i \in {j \in 1..Len(dumpFiles[d]) :
                                               dumpFiles[d][j].sysName # None}} :
           d \in DOMAIN dumpFiles}

\* every device with a dump and every neighbor is in the inventory, and no
\* name contains OOB-MGMT
InventoryOnlyFabric ==
    /\ DOMAIN dumpFiles \subseteq InventoryNames
    /\ NamedNeighbors \subseteq InventoryNames
    /\ \A d \in InventoryNames \cup DOMAIN dumpFiles \cup NamedNeighbors : ~HiddenName(d)

\* a node without its layer and icon
Uncategorized(node) == [node EXCEPT !.icon = "none", !.layerSortPreference = 0]

\* C30: on an inventory-only fabric the two scripts, run on the same files
\* with the same iteration orders, write the same node names and node ids and
\* the same link list (ids, endpoints, ports, discovery states); their nodes
\* differ in layer and icon at most.
C30_ScriptsAgree ==
    (bothScripts.ran /\ InventoryOnlyFabric) =>
        /\ bothScripts.minimal.written /\ bothScripts.full.written
        /\ bothScripts.minimal.links = bothScripts.full.links
        /\ Len(bothScripts.minimal.nodes) = Len(bothScripts.full.nodes)
        /\ \A n \in 1..Len(bothScripts.minimal.nodes) :
              Uncategorized(bothScripts.minimal.nodes[n])
                 = Uncategorized(bothScripts.full.nodes[n])

\* an inventory-only fabric with links where the scripts give oobswitch
\* different layers
C30_Witness ==
    /\ bothScripts.ran
    /\ InventoryOnlyFabric
    /\ Len(bothScripts.minimal.links) = 2
    /\ DOMAIN dumpFiles = {A, B}
    /\ bothScripts.minimal.nodes # bothScripts.full.nodes

====
